---- MODULE Spec2Model ----
(***************************************************************************)
(* Batch reconciliation pipeline of the Alraedah internal hub:             *)
(* field normalizers, duplicate/invalid detection and the batch archive    *)
(* build, as implemented in src/a.py (alias-mapping build, every mapped    *)
(* row is written) and src/app.py (rename-mapping build, only clean rows   *)
(* are written).                                                           *)
(*                                                                         *)
(* A Python str is modelled as a sequence of one-character strings.        *)
(* The token "ar5" stands for the single character U+0665 (ARABIC-INDIC    *)
(* DIGIT FIVE), a character that the regex class \d matches but that is    *)
(* not an ASCII digit.                                                     *)
(***************************************************************************)
EXTENDS Integers, Sequences, FiniteSets, TLC

VARIABLES
    call,       \* normalizer harness: which function was applied to arg
    arg,        \* normalizer harness: the raw input string
    ret,        \* normalizer harness: the value returned for arg
    ret2,       \* normalizer harness: the value returned when applied again
    variant,    \* which build runs: "a" (src/a.py) or "app" (src/app.py)
    pc,         \* position of the batch page: idle, loaded, error, stopped, done
    columns,    \* the header row of the uploaded table, in sheet order
    df,         \* the uploaded table (sequence of rows, each keyed by header)
    mapped,     \* the mapped + normalized table, as far as the run built it
    duplicates, \* row indices of the duplicates frame, in row order
    invalids,   \* row indices of the invalids frame, in row order
    clean_df,   \* row indices of the clean frame, in row order (src/app.py only)
    counts,     \* total, clean_count, invalid_count, duplicate_count
    zipf,       \* entries written to the archive, in write order
    offered,    \* TRUE when the download button is rendered
    batch_root_name, \* contents of the root folder / ZIP prefix text input
    safe_root,  \* the sanitized root of the last run that computed it, else ""
    download_options, \* the scenarios selected in the multiselect
    raised_at,  \* index in mapped of the record whose rendering raised in the last run, else 0
    selected_department, \* st.session_state.selected_department
    selected_role, \* st.session_state.selected_role (src/a.py), .role_select (src/app.py)
    dept,       \* single entry: what the Department selectbox returned in the last run
    role,       \* single entry: what the Role selectbox returned in the last run
    role_index, \* single entry: the index argument of the Role selectbox (0-based)
    submitted,  \* single entry: TRUE when Generate was pressed in the last run
    person      \* single entry: the record built by a run with Generate pressed

normVars  == <<call, arg, ret, ret2>>
batchVars == <<variant, pc, columns, df, mapped, duplicates, invalids, clean_df, counts, zipf, offered,
               batch_root_name, safe_root, download_options, raised_at>>
singleVars == <<selected_department, selected_role, dept, role, role_index, submitted, person>>
vars      == <<call, arg, ret, ret2, variant, pc, columns, df, mapped, duplicates, invalids,
               clean_df, counts, zipf, offered, batch_root_name, safe_root,
               download_options, raised_at, selected_department, selected_role, dept, role,
               role_index, submitted, person>>

None == "None"

----------------------------------------------------------------------------
(* Characters                                                              *)

AsciiDigits == {"0", "1", "2", "3", "4", "5", "6", "7", "8", "9"}

\* What the regex class \d matches on a str pattern: every Unicode decimal digit.
UnicodeDigits == AsciiDigits \cup {"ar5"}

\* What str.strip() removes.
Whitespace == {" "}

UpperLetters == <<"A", "B", "C", "E", "F", "I", "L", "M", "O", "R">>
LowerLetters == <<"a", "b", "c", "e", "f", "i", "l", "m", "o", "r">>

\* str.lower() on one character
lower_char(c) ==
    IF \E i \in 1..Len(UpperLetters) : UpperLetters[i] = c
    THEN LowerLetters[CHOOSE i \in 1..Len(UpperLetters) : UpperLetters[i] = c]
    ELSE c

\* str.upper() / title-casing of one character
upper_char(c) ==
    IF \E i \in 1..Len(LowerLetters) : LowerLetters[i] = c
    THEN UpperLetters[CHOOSE i \in 1..Len(LowerLetters) : LowerLetters[i] = c]
    ELSE c

----------------------------------------------------------------------------
(* str methods used by the normalizers                                     *)

startswith(s, p) == Len(s) >= Len(p) /\ SubSeq(s, 1, Len(p)) = p

RECURSIVE lstrip(_)
lstrip(s) == IF s # <<>> /\ Head(s) \in Whitespace THEN lstrip(Tail(s)) ELSE s

RECURSIVE rstrip(_)
rstrip(s) ==
    IF s # <<>> /\ s[Len(s)] \in Whitespace THEN rstrip(SubSeq(s, 1, Len(s) - 1)) ELSE s

strip(s) == rstrip(lstrip(s))

lower(s) == [i \in 1..Len(s) |-> lower_char(s[i])]

count(s, c) == Len(SelectSeq(s, LAMBDA x : x = c))

\* str.capitalize(): first character upper-cased, the rest lower-cased
capitalize(s) ==
    IF s = <<>> THEN <<>> ELSE <<upper_char(s[1])>> \o lower(Tail(s))

\* re.sub(r"\D", "", s): drop every character that is not a decimal digit
re_sub_nondigits(s) == SelectSeq(s, LAMBDA c : c \in UnicodeDigits)

----------------------------------------------------------------------------
(* normalize_saudi_mobile                                                  *)

s00966 == <<"0", "0", "9", "6", "6">>
s9665  == <<"9", "6", "6", "5">>
s05    == <<"0", "5">>
s5     == <<"5">>
s966   == <<"9", "6", "6">>
sp966  == <<"+", "9", "6", "6">>
sPlus  == <<"+">>

\* if clean.startswith("00966") and len(clean) == 14: clean = clean[2:]
drop_00(clean) ==
    IF startswith(clean, s00966) /\ Len(clean) = 14
    THEN SubSeq(clean, 3, Len(clean))
    ELSE clean

rule_05_keep_zero(clean) == <<sp966 \o clean, TRUE>>

\* return (f"+966{clean[1:]}", True)
rule_05(clean) == <<sp966 \o Tail(clean), TRUE>>

no_rule_returns_clean(mobile, clean) == <<clean, FALSE>>

\* return (mobile, False)
no_rule(mobile, clean) == <<mobile, FALSE>>

normalize_saudi_mobile(mobile) ==
    IF mobile = <<>> THEN <<<<>>, FALSE>>
    ELSE LET clean == drop_00(re_sub_nondigits(mobile))
         IN  IF startswith(clean, s9665) /\ Len(clean) = 12 THEN <<sPlus \o clean, TRUE>>
             ELSE IF startswith(clean, s05) /\ Len(clean) = 10 THEN rule_05(clean)
             ELSE IF startswith(clean, s5) /\ Len(clean) = 9 THEN <<sp966 \o clean, TRUE>>
             ELSE IF startswith(clean, s966) /\ Len(clean) = 12 THEN <<sPlus \o clean, TRUE>>
             ELSE IF startswith(clean, sp966) /\ Len(clean) = 13 THEN <<clean, TRUE>>
             ELSE no_rule(mobile, clean)

----------------------------------------------------------------------------
(* normalize_email, normalize_name                                         *)

one_at_or_more(e) == count(e, "@") >= 1

\* "@" in e and e.count("@") == 1
one_at(e) == count(e, "@") >= 1 /\ count(e, "@") = 1

\* e = email.strip().lower()
email_clean(email) == lower(strip(email))

normalize_email(email) ==
    IF email = <<>> THEN <<<<>>, FALSE>>
    ELSE LET e == email_clean(email) IN <<e, one_at(e)>>

name_title_each_word(name) ==
    IF name = <<>> THEN <<>>
    ELSE LET t == strip(name)
         IN  [i \in 1..Len(t) |->
                IF i = 1 \/ t[i - 1] \in Whitespace THEN upper_char(t[i]) ELSE lower_char(t[i])]

\* name.strip().capitalize() if name else ""
normalize_name(name) == IF name = <<>> THEN <<>> ELSE capitalize(strip(name))

----------------------------------------------------------------------------
(* Inputs of the normalizer harness                                        *)

MaxFill   == 9
MaxTokens == 3

FillDigits == <<"1", "2", "3", "4", "7", "8">>

\* n subscriber digits 1 2 3 4 7 8 1 2 3 ...
Fill(n) == [i \in 1..n |-> FillDigits[((i - 1) % Len(FillDigits)) + 1]]

MobilePrefixes ==
    { <<>>, <<"0">>, <<"0", "0">>, <<"+">>, s5, s05, s966, s9665, sp966,
      sp966 \o s5, s00966, s00966 \o s5 }

MobileMids == { <<>>, <<"-">>, <<" ">>, <<"ar5">>, <<"5">> }

MobileSuffixes == { <<>>, <<"-">>, <<"x">> }

MobileInputs ==
    { p \o m \o Fill(n) \o x :
        p \in MobilePrefixes, m \in MobileMids, n \in 0..MaxFill, x \in MobileSuffixes }

sFoo    == <<"F", "o", "o">>
sBarCOM == <<"B", "a", "r", ".", "C", "O", "M">>
sFooBar == <<"F", "o", "o", "@", "B", "a", "r", ".", "C", "O", "M">>
sfoobar == <<"f", "o", "o", "@", "b", "a", "r", ".", "c", "o", "m">>
sa_b    == <<"a", "@", "b">>
s_c     == <<"@", "c">>
sa_b_c  == <<"a", "@", "b", "@", "c">>
salice  == <<"a", "l", "i", "c", "e">>
sAlice  == <<"A", "l", "i", "c", "e">>
s2sp    == <<" ", " ">>
sa_B    == <<"a", " ", "B">>

TextTokens ==
    { <<" ">>, s2sp, <<"@">>, <<"a">>, <<"B">>, <<"1">>, sFoo, sBarCOM, sa_b, s_c, salice, sa_B }

RECURSIVE TokenStrings(_)
TokenStrings(n) ==
    IF n = 0 THEN { <<>> }
    ELSE LET shorter == TokenStrings(n - 1)
         IN  shorter \cup { s \o t : s \in shorter, t \in TextTokens }

TextInputs == TokenStrings(MaxTokens)

Inputs == MobileInputs \cup TextInputs

----------------------------------------------------------------------------
(* The normalizer harness: one input, each normalizer applied to it, and   *)
(* applied once more to its own result.                                    *)

sBatch_Outputs == <<"B", "a", "t", "c", "h", "_", "O", "u", "t", "p", "u", "t", "s">>
sToday         == <<"2", "0", "2", "6", "1", "1", "0", "2">>

\* src/a.py: default_batch_name = f"Batch_Outputs_{today}"
default_batch_name == sBatch_Outputs \o <<"_">> \o sToday

\* The value the text input shows before anything is typed:
\* src/a.py value=default_batch_name, src/app.py value="Batch_Outputs".
default_root_name(v) == IF v = "a" THEN default_batch_name ELSE sBatch_Outputs

----------------------------------------------------------------------------
(* Departments and roles (the catalog is the same in src/a.py and          *)
(* src/app.py).  A department name is one string; a role name is a str, a  *)
(* sequence of tokens, where a token is a space or a maximal run of other  *)
(* characters, so that replace(" ", "_") acts on it as it does in Python.  *)

\* list(DEPARTMENTS.keys())
DepartmentKeys ==
    << "PMO", "IT", "Engineering & Data", "Product", "Cybersecurity",
       "Risk", "Legal", "Customer Care", "Compliance", "Digital Lending",
       "Direct Lending", "Marketing", "Finance" >>

\* DEPARTMENTS[d]; DEPARTMENTS.get(d, []) for a name that is not a key
DEPARTMENTS(d) ==
    IF d = "PMO" THEN
        << <<"Head", " ", "of", " ", "Strategy">>,
           <<"Head", " ", "of", " ", "PMO">>,
           <<"IT", " ", "Program", " ", "Manager">>,
           <<"Business", " ", "Analyst">>,
           <<"Board", " ", "Member", " ", "&", " ", "CEO">> >>
    ELSE IF d = "IT" THEN
        << <<"Head", " ", "of", " ", "IT">>,
           <<"Senior", " ", "Manager", " ", "of", " ", "Technology", " ", "Operation", " ", "&", " ", "Applications">>,
           <<"Senior", " ", "Technical", " ", "&", " ", "Network", " ", "Engineer">>,
           <<"Senior", " ", "DevOps", " ", "Engineer">>,
           <<"Senior", " ", "Analyst">>,
           <<"IT", " ", "Support", " ", "Administrator">>,
           <<"Outsourced">> >>
    ELSE IF d = "Engineering & Data" THEN
        << <<"Head", " ", "of", " ", "Engineering">>,
           <<"Head", " ", "of", " ", "Data">>,
           <<"Senior", " ", "Software", " ", "Engineer">>,
           <<"Staff", " ", "IOS", " ", "Engineer">>,
           <<"Data", " ", "Engineer">>,
           <<"Associate", " ", "Data", " ", "Engineer">>,
           <<"Data", " ", "Analyst">>,
           <<"Senior", " ", "Analyst">>,
           <<"Analyst">>,
           <<"Outsourced">> >>
    ELSE IF d = "Product" THEN
        << <<"Principal">>,
           <<"Lead">>,
           <<"Senior">> >>
    ELSE IF d = "Cybersecurity" THEN
        << <<"CISO">>,
           <<"Cybersecurity", " ", "Engineer">>,
           <<"Cybersecurity", " ", "Analyst">>,
           <<"Threat", " ", "Intelligence", " ", "Analyst">>,
           <<"Outsourced">> >>
    ELSE IF d = "Risk" THEN
        << <<"Head", " ", "of", " ", "Risk">>,
           <<"AVP", " ", "-", " ", "Operations", " ", "Manager">>,
           <<"AVP">>,
           <<"Credit", " ", "Manager">>,
           <<"Senior", " ", "Associate">>,
           <<"Senior", " ", "Operations", " ", "Analyst">>,
           <<"Senior", " ", "Analyst">>,
           <<"Credit", " ", "Underwriting", " ", "Senior", " ", "Analyst">>,
           <<"Credit", " ", "Underwriting", " ", "Analyst">>,
           <<"Credit", " ", "Administration", " ", "Analyst">>,
           <<"Operations", " ", "Analyst">>,
           <<"Associate">>,
           <<"Analyst">> >>
    ELSE IF d = "Legal" THEN
        << <<"Senior", " ", "Corporate", " ", "Government", " ", "Analyst">>,
           <<"Collection", " ", "Manager">>,
           <<"Senior", " ", "Legal", " ", "Analyst">>,
           <<"Senior", " ", "Associate">>,
           <<"Team", " ", "Leader">>,
           <<"Legal", " ", "Analyst">>,
           <<"Senior", " ", "Analyst">>,
           <<"Collection", " ", "Officer">>,
           <<"Associate">>,
           <<"Analyst">>,
           <<"Outsourced">> >>
    ELSE IF d = "Customer Care" THEN
        << <<"Head", " ", "of", " ", "Customer", " ", "Care">>,
           <<"Senior", " ", "Customer", " ", "Care", " ", "Specialist">>,
           <<"Customer", " ", "Care", " ", "Specialist">> >>
    ELSE IF d = "Compliance" THEN
        << <<"VP", " ", "-", " ", "Head", " ", "of", " ", "Compliance">>,
           <<"Senior", " ", "AML", " ", "Officer">>,
           <<"AML", " ", "&", " ", "Compliance", " ", "Officer">>,
           <<"Compliance", " ", "Specialist">> >>
    ELSE IF d = "Digital Lending" THEN
        << <<"Commercial", " ", "Director">>,
           <<"Digital", " ", "Marketing", " ", "Manager">>,
           <<"Customer", " ", "Success", " ", "Manager">>,
           <<"Customer", " ", "Success", " ", "Specialist">> >>
    ELSE IF d = "Direct Lending" THEN
        << <<"Head", " ", "of", " ", "Sales">>,
           <<"Senior", " ", "Key", " ", "Accounts", " ", "Manager">>,
           <<"Key", " ", "Accounts", " ", "Manager">>,
           <<"Sales", " ", "Manager">>,
           <<"Senior", " ", "Team", " ", "Leader">>,
           <<"Team", " ", "Leader">>,
           <<"Growth", " ", "Manager">>,
           <<"Growth", " ", "Consultant", " ", "II">>,
           <<"Growth", " ", "Consultant", " ", "I">>,
           <<"Growth", " ", "Associate">>,
           <<"Sales", " ", "Operations">>,
           <<"Business", " ", "Development", " ", "Representative">>,
           <<"Quality", " ", "Assurance", " ", "Specialist">> >>
    ELSE IF d = "Marketing" THEN
        << <<"Senior", " ", "Communication", " ", "Specialist">>,
           <<"Marketing", " ", "Specialist">>,
           <<"Social", " ", "Media", " ", "Specialist">>,
           <<"Marketing", " ", "Executive">> >>
    ELSE IF d = "Finance" THEN
        << <<"VP", " ", "-", " ", "Head", " ", "of", " ", "Finance">>,
           <<"VP", " ", "-", " ", "Finance">>,
           <<"Senior", " ", "Finance", " ", "Analyst">>,
           <<"Senior", " ", "Financial", " ", "Associate">>,
           <<"Financial", " ", "Analyst">>,
           <<"Financial", " ", "Associate">> >>
    ELSE <<>>

\* list.index(x), 0-based; only called for a member of the list
index(list, x) == (CHOOSE k \in 1..Len(list) : list[k] = x /\ \A j \in 1..(k - 1) : list[j] # x) - 1

\* the person dict of a run in which Generate was not pressed: none is built
NoPerson ==
    [First_Name |-> <<>>, Last_Name |-> <<>>, Department |-> "", Role |-> <<>>,
     Company |-> <<>>, Mobile |-> <<>>, Email |-> <<>>]

\* ensure_session_defaults() in the first run of the page, which is the
\* single-entry page (mode radio index=0), and the widgets of that run.
SingleIdle ==
    /\ selected_department = DepartmentKeys[1]
    /\ selected_role = DEPARTMENTS(DepartmentKeys[1])[1]
    /\ dept = DepartmentKeys[1]
    /\ role = DEPARTMENTS(DepartmentKeys[1])[1]
    /\ role_index = 0
    /\ submitted = FALSE
    /\ person = NoPerson

\* The batch page before any upload.
BatchIdle ==
    /\ pc = "idle"
    /\ columns = <<>>
    /\ batch_root_name = default_root_name(variant)
    /\ safe_root = <<>>
    /\ download_options = IF variant = "app2" THEN {"Full Package (per-employee folders)"}
                          ELSE {"Full Package (All Files)"}
    /\ df = <<>>
    /\ mapped = <<>>
    /\ duplicates = <<>>
    /\ invalids = <<>>
    /\ clean_df = <<>>
    /\ counts = [total |-> 0, clean |-> 0, invalid |-> 0, duplicate |-> 0]
    /\ zipf = <<>>
    /\ offered = FALSE
    /\ raised_at = 0

InitNorm ==
    /\ call = "none"
    /\ arg \in Inputs
    /\ ret = None
    /\ ret2 = None
    /\ variant = "a"
    /\ BatchIdle
    /\ SingleIdle

CallNormalizeMobile ==
    /\ call = "none"
    /\ call' = "mobile"
    /\ ret' = normalize_saudi_mobile(arg)
    /\ UNCHANGED <<arg, ret2>>
    /\ UNCHANGED batchVars
    /\ UNCHANGED singleVars

CallNormalizeMobileAgain ==
    /\ call = "mobile"
    /\ call' = "mobile2"
    /\ ret2' = normalize_saudi_mobile(ret[1])
    /\ UNCHANGED <<arg, ret>>
    /\ UNCHANGED batchVars
    /\ UNCHANGED singleVars

CallNormalizeEmail ==
    /\ call = "none"
    /\ call' = "email"
    /\ ret' = normalize_email(arg)
    /\ UNCHANGED <<arg, ret2>>
    /\ UNCHANGED batchVars
    /\ UNCHANGED singleVars

CallNormalizeName ==
    /\ call = "none"
    /\ call' = "name"
    /\ ret' = normalize_name(arg)
    /\ UNCHANGED <<arg, ret2>>
    /\ UNCHANGED batchVars
    /\ UNCHANGED singleVars

CallNormalizeNameAgain ==
    /\ call = "name"
    /\ call' = "name2"
    /\ ret2' = normalize_name(ret)
    /\ UNCHANGED <<arg, ret>>
    /\ UNCHANGED batchVars
    /\ UNCHANGED singleVars

NextNorm ==
    \/ CallNormalizeMobile
    \/ CallNormalizeMobileAgain
    \/ CallNormalizeEmail
    \/ CallNormalizeName
    \/ CallNormalizeNameAgain

SpecNorm == InitNorm /\ [][NextNorm]_vars

----------------------------------------------------------------------------
(* Batch page: mapping and normalization of the uploaded table             *)

Variants == {"a", "app"}

NoExc          == "no exception"
TypeError      == "TypeError"
ValueError     == "ValueError"
KeyError       == "KeyError"
AttributeError == "AttributeError"

\* float("nan"), the cell pandas fills in where a column has no value
NaN == <<"NaN">>

Indices(t) == 1..Len(t)

Range(q) == { q[k] : k \in 1..Len(q) }

\* The rows of a frame selected by a boolean mask, in row order.
Select(t, mask) == SelectSeq([i \in Indices(t) |-> i], LAMBDA i : i \in mask)

Column(t, name) == [i \in Indices(t) |-> t[i][name]]

\* The canonical fields the model follows, in the order of the aliases dict.
\* (Arabic_Name, Department, Website, Location, Google_Maps_Link and Notes are
\* mapped by the same code and take part in no decision.)
CanonicalFields == <<"First_Name", "Last_Name", "Role", "Company", "Mobile", "Email">>

\* src/a.py: aliases
aliases(k) ==
    CASE k = "First_Name" -> <<"First_Name", "First Name", "First", "FName">>
      [] k = "Last_Name"  -> <<"Last_Name", "Last Name", "Last", "LName">>
      [] k = "Role"       -> <<"Role", "Position", "Title">>
      [] k = "Company"    -> <<"Company", "Org", "Organization">>
      [] k = "Mobile"     -> <<"Mobile", "Phone", "Cell", "Mobile_Normalized">>
      [] k = "Email"      -> <<"Email", "E-mail", "Mail", "Email_Normalized">>

\* src/a.py: for c in cands: if c in frame.columns: return c; return default
resolve_col(cols, cands) ==
    LET hits == { n \in 1..Len(cands) : \E x \in 1..Len(cols) : cols[x] = cands[n] }
    IN  IF hits = {} THEN None ELSE cands[CHOOSE n \in hits : \A x \in hits : n <= x]

\* src/a.py: mapped = pd.DataFrame(); mapped[k] = df[col] if col else "".
\* The empty frame takes its index from the first column assigned from df; the
\* columns assigned "" before that have no row yet and are filled with NaN, the
\* ones assigned "" later hold "" in every row.  With no field resolved the
\* frame stays without rows.
map_aliases_a(cols, rows) ==
    LET col(k)   == resolve_col(cols, aliases(k))
        resolved == { n \in 1..Len(CanonicalFields) : col(CanonicalFields[n]) # None }
        first    == CHOOSE n \in resolved : \A x \in resolved : n <= x
        cell(r, n) ==
            IF n \in resolved THEN r[col(CanonicalFields[n])]
            ELSE IF n < first THEN NaN
            ELSE <<>>
        row(r) == [First_Name |-> cell(r, 1), Last_Name |-> cell(r, 2), Role |-> cell(r, 3),
                   Company |-> cell(r, 4), Mobile |-> cell(r, 5), Email |-> cell(r, 6)]
    IN  IF resolved = {} THEN <<>> ELSE [i \in Indices(rows) |-> row(rows[i])]

\* src/app.py: df.rename(columns={"First Name": "First_Name", "Last Name": "Last_Name", ...});
\* the other pairs rename a header to itself or belong to fields not followed here
rename(h) ==
    CASE h = "First Name" -> "First_Name"
      [] h = "Last Name"  -> "Last_Name"
      [] OTHER            -> h

\* one row of the renamed frame: the cells of the first n columns under their
\* new names
RECURSIVE renamed_row(_, _, _)
renamed_row(cols, r, n) ==
    IF n = 0 THEN <<>>
    ELSE renamed_row(cols, r, n - 1) @@ (rename(cols[n]) :> r[cols[n]])

\* the renamed frame keeps every column of the sheet
map_rename_app(cols, rows) ==
    LET row(r) == renamed_row(cols, r, Len(cols)) IN [i \in Indices(rows) |-> row(rows[i])]

\* src/a.py: mapped["First_Name"].apply(normalize_name), mapped["Last_Name"] likewise
map_names_a(row) ==
    [row EXCEPT !.First_Name = normalize_name(row.First_Name),
                !.Last_Name  = normalize_name(row.Last_Name)]

\* the four derived columns added to a row
with_contacts(row) ==
    LET mb == normalize_saudi_mobile(row.Mobile)
        em == normalize_email(row.Email)
    IN  [Mobile_Normalized |-> mb[1],
         Mobile_Valid      |-> mb[2],
         Email_Normalized  |-> em[1],
         Email_Valid       |-> em[2]] @@ row

\* src/a.py lines 594-611.  normalize_name(nan) evaluates nan.strip(): a float
\* has no such attribute.
normalize_table_a(cols, rows) ==
    LET m == map_aliases_a(cols, rows)
        normalized(r) == with_contacts(map_names_a(r))
    IN  IF \E i \in Indices(m) : m[i].First_Name = NaN \/ m[i].Last_Name = NaN
        THEN [exc |-> AttributeError, rows |-> m]
        ELSE [exc |-> NoExc, rows |-> [i \in Indices(m) |-> normalized(m[i])]]

\* src/app.py lines 572-589: mapped["Mobile"] needs the column; a, b = zip(*column.map(f))
\* cannot unpack when the column is empty
normalize_table_app(cols, rows) ==
    LET m     == map_rename_app(cols, rows)
        names == { rename(cols[n]) : n \in 1..Len(cols) }
    IN  IF "Mobile" \notin names THEN [exc |-> KeyError, rows |-> m]
        ELSE IF rows = <<>> THEN [exc |-> ValueError, rows |-> m]
        ELSE IF "Email" \notin names THEN [exc |-> KeyError, rows |-> m]
        ELSE [exc |-> NoExc, rows |-> [i \in Indices(m) |-> with_contacts(m[i])]]

----------------------------------------------------------------------------
(* Batch page: duplicate / invalid detection                               *)

duplicated_keep_first(col, kw) ==
    IF kw # "keep" THEN [exc |-> TypeError, mask |-> {}]
    ELSE [exc  |-> NoExc,
          mask |-> { i \in DOMAIN col : \E j \in DOMAIN col : j < i /\ col[j] = col[i] }]

duplicated_keep_last(col, kw) ==
    IF kw # "keep" THEN [exc |-> TypeError, mask |-> {}]
    ELSE [exc  |-> NoExc,
          mask |-> { i \in DOMAIN col : \E j \in DOMAIN col : j > i /\ col[j] = col[i] }]

\* pandas Series.duplicated(keep=False): every row whose value occurs more than
\* once.  The only keyword the method accepts is keep; any other raises TypeError.
duplicated(col, kw) ==
    IF kw # "keep" THEN [exc |-> TypeError, mask |-> {}]
    ELSE [exc  |-> NoExc,
          mask |-> { i \in DOMAIN col : \E j \in DOMAIN col : j # i /\ col[j] = col[i] }]

\* Series.ne(""): the rows whose value is not the empty string
ne_empty(col) == { i \in DOMAIN col : col[i] # <<>> }

invalid_mask_both(t) == { i \in Indices(t) : ~t[i].Email_Valid /\ ~t[i].Mobile_Valid }

\* rows where ~Email_Valid | ~Mobile_Valid
invalid_mask(t) == { i \in Indices(t) : ~t[i].Email_Valid \/ ~t[i].Mobile_Valid }

clean_mask_dups_only(t, dup, inv) == Indices(t) \ dup

clean_mask_either(t, dup, inv) == (Indices(t) \ dup) \cup (Indices(t) \ inv)

\* src/app.py: clean_df = mapped[~index.isin(duplicates.index) & ~index.isin(invalids.index)]
clean_mask(t, dup, inv) == (Indices(t) \ dup) \cap (Indices(t) \ inv)

Classification(t, dup, inv, clean, nclean) ==
    [exc        |-> NoExc,
     duplicates |-> Select(t, dup),
     invalids   |-> Select(t, inv),
     clean_df   |-> Select(t, clean),
     counts     |-> [total     |-> Len(t),
                     clean     |-> nclean,
                     invalid   |-> Cardinality(inv),
                     duplicate |-> Cardinality(dup)]]

NoCounts == [total |-> 0, clean |-> 0, invalid |-> 0, duplicate |-> 0]

Raised(e) ==
    [exc |-> e, duplicates |-> <<>>, invalids |-> <<>>, clean_df |-> <<>>, counts |-> NoCounts]

\* src/app.py lines 592-601
classify_app(t) ==
    LET dup_mobile == duplicated(Column(t, "Mobile_Normalized"), "keep")
        dup_email  == duplicated(Column(t, "Email_Normalized"), "keep")
        dup        == dup_mobile.mask \cup dup_email.mask
        inv        == invalid_mask(t)
        clean      == clean_mask(t, dup, inv)
    IN  IF dup_mobile.exc # NoExc THEN Raised(dup_mobile.exc)
        ELSE IF dup_email.exc # NoExc THEN Raised(dup_email.exc)
        ELSE Classification(t, dup, inv, clean, Cardinality(clean))

\* src/a.py lines 613-620.  The Series has a duplicated attribute, so the first
\* branch of the conditional expression is the one evaluated: duplicated(Keep=False).
classify_a(t) ==
    LET dup_email0 == duplicated(Column(t, "Email_Normalized"), "Keep")
        dup_mobile0 == duplicated(Column(t, "Mobile_Normalized"), "keep")
        dup_email   == dup_email0.mask \cap ne_empty(Column(t, "Email_Normalized"))
        dup_mobile  == dup_mobile0.mask \cap ne_empty(Column(t, "Mobile_Normalized"))
        dup         == dup_email \cup dup_mobile
        inv         == invalid_mask(t)
    IN  IF dup_email0.exc # NoExc THEN Raised(dup_email0.exc)
        ELSE IF dup_mobile0.exc # NoExc THEN Raised(dup_mobile0.exc)
        ELSE Classification(t, dup, inv, {}, Len(t) - Cardinality(inv \cup dup))

normalize_table(v, cols, rows) ==
    IF v = "a" THEN normalize_table_a(cols, rows) ELSE normalize_table_app(cols, rows)

\* src/app.py: st.dataframe(mapped[["First_Name","Last_Name","Arabic_Name","Department","Role","Company"]])
\* needs each of the columns; src/a.py shows columns its mapping always creates
show_table(v, cols) ==
    IF v = "app" /\ \E k \in {"First_Name", "Last_Name", "Role", "Company"} :
                       \A n \in 1..Len(cols) : rename(cols[n]) # k
    THEN KeyError
    ELSE NoExc

classify(v, t) == IF v = "a" THEN classify_a(t) ELSE classify_app(t)

----------------------------------------------------------------------------
(* ZIP writers                                                             *)

sBatch_Summary_txt   == <<"B", "a", "t", "c", "h", "_", "S", "u", "m", "m", "a", "r", "y", ".", "t", "x", "t">>
sInvalid_Entries_csv == <<"R", "e", "p", "o", "r", "t", "s", "/", "I", "n", "v", "a", "l", "i", "d", "_", "E", "n", "t", "r", "i", "e", "s", ".", "c", "s", "v">>
sDuplicates_csv      == <<"R", "e", "p", "o", "r", "t", "s", "/", "D", "u", "p", "l", "i", "c", "a", "t", "e", "s", ".", "c", "s", "v">>
sSignature_EN_pdf    == <<"/", "S", "i", "g", "n", "a", "t", "u", "r", "e", "_", "E", "N", ".", "p", "d", "f">>
sSignature_AR_pdf    == <<"/", "S", "i", "g", "n", "a", "t", "u", "r", "e", "_", "A", "R", ".", "p", "d", "f">>
sBusinessCard_pdf    == <<"/", "B", "u", "s", "i", "n", "e", "s", "s", "C", "a", "r", "d", ".", "p", "d", "f">>
sQR                  == <<"/", "Q", "R", "/">>
s_png                == <<".", "p", "n", "g">>
s_svg                == <<".", "s", "v", "g">>
s_vcf                == <<".", "v", "c", "f">>
s_pdf                == <<".", "p", "d", "f">>
sBusinessCards_Flat  == <<"B", "u", "s", "i", "n", "e", "s", "s", "C", "a", "r", "d", "s", "_", "F", "l", "a", "t", "/">>
sSignatures_Flat     == <<"S", "i", "g", "n", "a", "t", "u", "r", "e", "s", "_", "F", "l", "a", "t", "/">>
s_EN_pdf             == <<"_", "E", "N", ".", "p", "d", "f">>
s_AR_pdf             == <<"_", "A", "R", ".", "p", "d", "f">>

AsciiLetters ==
    { "A", "B", "C", "D", "E", "F", "G", "H", "I", "J", "K", "L", "M",
      "N", "O", "P", "Q", "R", "S", "T", "U", "V", "W", "X", "Y", "Z",
      "a", "b", "c", "d", "e", "f", "g", "h", "i", "j", "k", "l", "m",
      "n", "o", "p", "q", "r", "s", "t", "u", "v", "w", "x", "y", "z" }

\* the character class [A-Za-z0-9._-]
SafeChars == AsciiLetters \cup AsciiDigits \cup {".", "_", "-"}

\* str.replace(a, b) for single characters
replace(s, a, b) == [i \in 1..Len(s) |-> IF s[i] = a THEN b ELSE s[i]]

\* str.strip(chars)
RECURSIVE lstrip_chars(_, _)
lstrip_chars(s, cs) == IF s # <<>> /\ Head(s) \in cs THEN lstrip_chars(Tail(s), cs) ELSE s

RECURSIVE rstrip_chars(_, _)
rstrip_chars(s, cs) ==
    IF s # <<>> /\ s[Len(s)] \in cs THEN rstrip_chars(SubSeq(s, 1, Len(s) - 1), cs) ELSE s

strip_chars(s, cs) == rstrip_chars(lstrip_chars(s, cs), cs)

re_sub_each_unsafe(s) == [i \in 1..Len(s) |-> IF s[i] \in SafeChars THEN s[i] ELSE "_"]

\* re.sub(r"[^A-Za-z0-9._-]+", "_", s): each maximal run of other characters
\* becomes one underscore
RECURSIVE re_sub_unsafe(_)
re_sub_unsafe(s) ==
    IF s = <<>> THEN <<>>
    ELSE IF Head(s) \in SafeChars THEN <<Head(s)>> \o re_sub_unsafe(Tail(s))
    ELSE IF Len(s) >= 2 /\ s[2] \notin SafeChars THEN re_sub_unsafe(Tail(s))
    ELSE <<"_">> \o re_sub_unsafe(Tail(s))

\* re.sub(...).strip("_") or default
safe_root_of(name, default) ==
    LET r == strip_chars(re_sub_unsafe(name), {"_"})
    IN  IF r = <<>> THEN default ELSE r

\* root = (root or "").strip().strip("/\\"); f"{root}/{path}" if root else path
_join_root(root, path) ==
    LET r == strip_chars(strip(root), {"/", "\\"})
    IN  IF r = <<>> THEN path ELSE r \o <<"/">> \o path

\* The bytes a renderer returns for the person built from one row of mapped.
Payload(kind, i) == [kind |-> kind, row |-> i]

Entry(path, payload) == [path |-> path, payload |-> payload]

\* folder = f"{first}_{last}_{role}_{comp}".replace(" ", "_")
folder_of(p) ==
    replace(p.First_Name \o <<"_">> \o p.Last_Name \o <<"_">> \o p.Role \o <<"_">> \o p.Company,
            " ", "_")

\* base = f"{first}_{last}".replace(" ", "_")
base_of(p) == replace(p.First_Name \o <<"_">> \o p.Last_Name, " ", "_")

write_full_package_to_zip(p, i, root) ==
    LET folder == folder_of(p)
        base   == base_of(p)
    IN  << Entry(_join_root(root, folder \o sSignature_EN_pdf), Payload("signature_en_pdf", i)),
           Entry(_join_root(root, folder \o sSignature_AR_pdf), Payload("signature_ar_pdf", i)),
           Entry(_join_root(root, folder \o sBusinessCard_pdf), Payload("business_card_pdf", i)),
           Entry(_join_root(root, folder \o sQR \o base \o s_png), Payload("qr_png", i)),
           Entry(_join_root(root, folder \o sQR \o base \o s_svg), Payload("qr_svg", i)),
           Entry(_join_root(root, folder \o sQR \o base \o s_vcf), Payload("vcf", i)) >>

write_card_flat(p, i, root) ==
    << Entry(_join_root(root, sBusinessCards_Flat \o base_of(p) \o s_pdf),
             Payload("business_card_pdf", i)) >>

write_signature_flat(p, i, root) ==
    << Entry(_join_root(root, sSignatures_Flat \o base_of(p) \o s_EN_pdf),
             Payload("signature_en_pdf", i)),
       Entry(_join_root(root, sSignatures_Flat \o base_of(p) \o s_AR_pdf),
             Payload("signature_ar_pdf", i)) >>

----------------------------------------------------------------------------
(* Batch page: Generate ZIP Outputs                                        *)

Full       == "Full Package (All Files)"
Cards      == "Business Cards Only"
Signatures == "Email Signatures Only"
Scenarios  == {Full, Cards, Signatures}

RECURSIVE Flatten_overwriting(_)
Flatten_overwriting(ss) ==
    IF ss = <<>> THEN <<>>
    ELSE LET rest == Flatten_overwriting(Tail(ss))
         IN  SelectSeq(Head(ss), LAMBDA e : \A k \in 1..Len(rest) : rest[k].path # e.path) \o rest

\* ZipFile.writestr appends an entry whether or not the name is already present
RECURSIVE Flatten(_)
Flatten(ss) == IF ss = <<>> THEN <<>> ELSE Head(ss) \o Flatten(Tail(ss))

\* The three writer calls made for one row, in the order of the loop body.
outputs_of(p, i, opts, root) ==
    (IF Full \in opts THEN write_full_package_to_zip(p, i, root) ELSE <<>>)
    \o (IF Cards \in opts THEN write_card_flat(p, i, root) ELSE <<>>)
    \o (IF Signatures \in opts THEN write_signature_flat(p, i, root) ELSE <<>>)

\* The lines of the summary that report the run: the four counts.
count_lines(c) ==
    << [text |-> "Total Employees", n |-> c.total],
       [text |-> "Clean", n |-> c.clean],
       [text |-> "Invalid", n |-> c.invalid],
       [text |-> "Duplicates", n |-> c.duplicate] >>

\* f"Generated on: {datetime.now()...}"
generated_on_line == << [text |-> "Generated on", date |-> sToday] >>

\* src/app.py: the summary file states the four counts and the time of the run
summary_app(c) == [kind |-> "summary", lines |-> count_lines(c) \o generated_on_line]

\* src/app.py: for _, row in clean_df.iterrows(), folder_name = f"{safe_root}/{first}_{last}"
rows_written_app(t, clean) == clean

zip_app(t, clean, c, opts, root) ==
    LET rows == rows_written_app(t, clean)
    IN  << Entry(root \o <<"/">> \o sBatch_Summary_txt, summary_app(c)) >>
        \o Flatten([k \in 1..Len(rows) |->
               LET i == rows[k]
                   folder_name == root \o <<"/">> \o t[i].First_Name \o <<"_">> \o t[i].Last_Name
               IN  outputs_of(t[i], i, opts, folder_name)])

\* who = f"{First_Name} {Last_Name}".strip()
who_of(r) == strip(r.First_Name \o <<" ">> \o r.Last_Name)

\* src/a.py: after the counts, the invalid rows with their reasons and the
\* duplicate rows with their normalized email and mobile
summary_a(t, c, inv, dup) ==
    [kind  |-> "summary",
     lines |-> count_lines(c)
               \o (IF c.invalid # 0
                   THEN [k \in 1..Len(inv) |->
                           [text    |-> "Invalid entry",
                            who     |-> who_of(t[inv[k]]),
                            reasons |-> (IF ~t[inv[k]].Email_Valid THEN <<"Email">> ELSE <<>>)
                                        \o (IF ~t[inv[k]].Mobile_Valid THEN <<"Mobile">> ELSE <<>>)]]
                   ELSE <<>>)
               \o (IF c.duplicate # 0
                   THEN [k \in 1..Len(dup) |->
                           [text   |-> "Duplicate entry",
                            who    |-> who_of(t[dup[k]]),
                            email  |-> t[dup[k]].Email_Normalized,
                            mobile |-> t[dup[k]].Mobile_Normalized]]
                   ELSE <<>>)
               \o generated_on_line]

zip_a(t, inv, dup, c, opts, root) ==
    << Entry(_join_root(root, sBatch_Summary_txt), summary_a(t, c, inv, dup)) >>
    \o (IF c.invalid # 0
        THEN << Entry(_join_root(root, sInvalid_Entries_csv), [kind |-> "csv", rows |-> inv]) >>
        ELSE <<>>)
    \o (IF c.duplicate # 0
        THEN << Entry(_join_root(root, sDuplicates_csv), [kind |-> "csv", rows |-> dup]) >>
        ELSE <<>>)
    \o Flatten([i \in Indices(t) |-> outputs_of(t[i], i, opts, root)])

\* src/a.py: re.sub(..., (batch_root_name or default_batch_name)).strip("_") or default_batch_name
\* src/app.py: re.sub(..., custom_zip_prefix).strip("_") or "Batch_Outputs"
safe_root_for(v, name) ==
    IF v = "a"
    THEN safe_root_of(IF name = <<>> THEN default_batch_name ELSE name, default_batch_name)
    ELSE safe_root_of(name, sBatch_Outputs)

\* src/app.py computes safe_root in every run that gets past the classification;
\* src/a.py computes it only in the run of the Generate button.
safe_root_after_upload(v, name, old) == IF v = "a" THEN old ELSE safe_root_for(v, name)

\* The script run that follows an upload: read, map, normalize, classify, show
\* the summary and the table.  An exception ends the run before the Generate
\* button is drawn; what the run had built by then stays as it was.
Upload(cols, rows) ==
    /\ pc = "idle"
    /\ columns' = cols
    /\ df' = rows
    /\ LET t == normalize_table(variant, cols, rows)
           c == IF t.exc # NoExc THEN Raised(t.exc) ELSE classify(variant, t.rows)
           e == IF c.exc # NoExc THEN c.exc ELSE show_table(variant, cols)
       IN  /\ mapped' = t.rows
           /\ duplicates' = c.duplicates
           /\ invalids' = c.invalids
           /\ clean_df' = c.clean_df
           /\ counts' = c.counts
           /\ IF e # NoExc
              THEN /\ pc' = "error"
                   /\ safe_root' = safe_root
              ELSE /\ pc' = "loaded"
                   /\ safe_root' = safe_root_after_upload(variant, batch_root_name, safe_root)
    /\ UNCHANGED <<variant, zipf, offered, batch_root_name, download_options>>
    /\ raised_at' = 0
    /\ UNCHANGED normVars
    /\ UNCHANGED singleVars

\* The script run that follows a press of Generate ZIP Outputs, with opts the
\* selection of the multiselect at that time.
Generate(opts) ==
    /\ pc = "loaded"
    /\ download_options' = opts
    /\ safe_root' = safe_root_for(variant, batch_root_name)
    /\ IF variant = "a"
       THEN /\ zipf' = zip_a(mapped, invalids, duplicates, counts, opts, safe_root')
            /\ offered' = TRUE
            /\ pc' = "done"
       ELSE IF counts.clean = 0
            THEN /\ zipf' = <<>>
                 /\ offered' = FALSE
                 /\ pc' = "stopped"
            ELSE /\ zipf' = zip_app(mapped, clean_df, counts, opts, safe_root')
                 /\ offered' = TRUE
                 /\ pc' = "done"
    /\ UNCHANGED <<variant, columns, df, mapped, duplicates, invalids, clean_df, counts,
                   batch_root_name>>
    /\ raised_at' = 0
    /\ UNCHANGED normVars
    /\ UNCHANGED singleVars

----------------------------------------------------------------------------
(* Batches uploaded to the batch page                                      *)

MaxRows == 3

sA_b  == <<" ", "A", "@", "b">>
sc_b  == <<"c", "@", "b">>
sal   == <<"a", "l">>

\* 512347812 written three ways, one other subscriber number, nothing, not a number
BatchMobiles ==
    { s5 \o Fill(8), s05 \o Fill(8), sp966 \o <<" ">> \o s5 \o Fill(7) \o <<"9">>,
      <<>>, <<"1", "2">> }

\* a@b written two ways, one other address, nothing
BatchEmails == { sa_b, sA_b, sc_b, <<>> }

ContactRows ==
    { [First_Name |-> sal, Last_Name |-> <<"b">>, Role |-> <<"c">>, Company |-> <<"m">>,
       Mobile |-> mb, Email |-> em] : mb \in BatchMobiles, em \in BatchEmails }

RECURSIVE Batches(_, _)
Batches(pool, n) ==
    IF n = 0 THEN { <<>> }
    ELSE LET shorter == Batches(pool, n - 1)
         IN  shorter \cup { Append(b, r) : b \in { x \in shorter : Len(x) = n - 1 }, r \in pool }

InitBatch ==
    /\ call = "none"
    /\ arg = <<>>
    /\ ret = None
    /\ ret2 = None
    /\ variant \in Variants
    /\ BatchIdle
    /\ SingleIdle

ContactBatches == Batches(ContactRows, MaxRows)

\* Sheets made from the template: the headers are the canonical names.
UploadContacts == pc = "idle" /\ \E rows \in ContactBatches : Upload(CanonicalFields, rows)

GenerateOutputs == pc = "loaded" /\ \E opts \in SUBSET Scenarios : Generate(opts)

NextBatch ==
    \/ UploadContacts
    \/ GenerateOutputs

SpecBatch == InitBatch /\ [][NextBatch]_vars

----------------------------------------------------------------------------
(* The batch page with the root name typed by the user and sheets whose    *)
(* rows differ in name, role and contact data                              *)

\* The script run that follows an edit of the root name.  src/a.py draws the
\* text input before the uploader; src/app.py draws it after the classification,
\* so only a run that got that far shows it.  A run without a press of the
\* button offers no download.
EnterRootName(name) ==
    /\ variant = "a" \/ pc \in {"loaded", "stopped", "done"}
    /\ batch_root_name' = name
    /\ IF pc \in {"loaded", "stopped", "done"}
       THEN /\ pc' = "loaded"
            /\ zipf' = <<>>
            /\ offered' = FALSE
            /\ safe_root' = safe_root_after_upload(variant, name, safe_root)
       ELSE UNCHANGED <<pc, zipf, offered, safe_root>>
    /\ UNCHANGED <<variant, columns, df, mapped, duplicates, invalids, clean_df, counts,
                   download_options>>
    /\ raised_at' = 0
    /\ UNCHANGED normVars
    /\ UNCHANGED singleVars

MaxRootTokens == 2
MaxPeople     == 2

sQ1_Hires_2024_raw ==
    <<"Q", "1", " ", "H", "i", "r", "e", "s", " ", "/", " ", "2", "0", "2", "4", "!">>
sQ1_Hires_2024 == <<"Q", "1", "_", "H", "i", "r", "e", "s", "_", "2", "0", "2", "4">>

RootTokens == { <<" ">>, <<"/">>, <<"!">>, <<"_">>, <<"a">>, <<".">>, <<"ar5">> }

RECURSIVE RootStrings(_)
RootStrings(n) ==
    IF n = 0 THEN { <<>> }
    ELSE LET shorter == RootStrings(n - 1)
         IN  shorter \cup { x \o t : x \in shorter, t \in RootTokens }

RootNames == RootStrings(MaxRootTokens) \cup { sQ1_Hires_2024_raw, sBatch_Outputs }

sAl_B == <<"A", "l", " ", "B">>
sc_d  == <<"c", " ", "d">>

\* two people; a valid contact, another valid contact, and one with a bad
\* mobile whose email is the first one's written differently
PeopleRows ==
    { [First_Name |-> id[1], Last_Name |-> <<"b">>, Role |-> id[2], Company |-> <<"m">>,
       Mobile |-> ct[1], Email |-> ct[2]] :
          id \in { <<sal, <<"c">>>>, <<sAl_B, sc_d>> },
          ct \in { <<s5 \o Fill(8), sa_b>>,
                   <<sp966 \o <<" ">> \o s5 \o Fill(7) \o <<"9">>, sc_b>>,
                   <<<<"1", "2">>, sA_b>> } }

PeopleBatches == Batches(PeopleRows, MaxPeople)

UploadPeople == pc = "idle" /\ \E rows \in PeopleBatches : Upload(CanonicalFields, rows)

\* the name of the spec's example, nothing, or the app's default
KnownRootNames == { sQ1_Hires_2024_raw, <<>>, sBatch_Outputs }

TypeKnownRootName == \E name \in KnownRootNames : EnterRootName(name)

NextArchive ==
    \/ UploadPeople
    \/ TypeKnownRootName
    \/ GenerateOutputs

SpecArchive == InitBatch /\ [][NextArchive]_vars

\* Sheets of one row, and any root name of the pool
UploadOnePerson == pc = "idle" /\ \E r \in PeopleRows : Upload(CanonicalFields, <<r>>)

TypeRootName == \E name \in RootNames : EnterRootName(name)

NextRoot ==
    \/ UploadOnePerson
    \/ TypeRootName
    \/ GenerateOutputs

SpecRoot == InitBatch /\ [][NextRoot]_vars

----------------------------------------------------------------------------
(* Sheets whose headers are not the template's                             *)

MaxSheetRows == 2

\* The headers a sheet may use for each field, in sheet order: the canonical
\* name, other aliases (two of them in either order), a header that differs
\* from the aliases in case or spacing only, or no column at all.
HeaderChoices ==
    << { <<"First_Name">>, <<"First Name">>, <<"FName", "First">>, <<"First", "FName">>,
         <<"first_name">>, <<>> },
       { <<"Last_Name">>, <<"Last Name">> },
       { <<"Role">>, <<"Title">> },
       { <<"Company">> },
       { <<"Mobile">>, <<"Cell", "Phone">>, <<"Mobile ">>, <<>> },
       { <<"Email">>, <<"Email_Normalized", "E-mail">>, <<>> } >>

HeaderRows ==
    { a \o b \o c \o d \o e \o f :
        a \in HeaderChoices[1], b \in HeaderChoices[2], c \in HeaderChoices[3],
        d \in HeaderChoices[4], e \in HeaderChoices[5], f \in HeaderChoices[6] }

\* One character per header, so that a cell tells which column it stands in.
HeaderTag(h) ==
    CASE h = "First_Name" -> "A" [] h = "First Name" -> "B" [] h = "First" -> "C"
      [] h = "FName" -> "D" [] h = "first_name" -> "E"
      [] h = "Last_Name" -> "F" [] h = "Last Name" -> "G"
      [] h = "Role" -> "H" [] h = "Title" -> "I" [] h = "Company" -> "J"
      [] h = "Mobile" -> "1" [] h = "Cell" -> "2" [] h = "Phone" -> "3" [] h = "Mobile " -> "4"
      [] h = "Email" -> "a" [] h = "Email_Normalized" -> "b" [] h = "E-mail" -> "c"

RowDigit(r) == CASE r = 1 -> "1" [] r = 2 -> "2" [] r = 3 -> "3" [] OTHER -> "4"

\* The cell of row r under header h: a name already in its normal form, a
\* valid mobile or a valid email, different in every column and row.
CellOf(h, r) ==
    IF HeaderTag(h) \in AsciiDigits
    THEN <<"5", "1", "2", "3", "4", "7", "8", HeaderTag(h), RowDigit(r)>>
    ELSE IF HeaderTag(h) \in {"a", "b", "c"}
    THEN <<HeaderTag(h), RowDigit(r), "@", "b">>
    ELSE <<HeaderTag(h), RowDigit(r)>>

SheetRows(cols, n) ==
    [r \in 1..n |-> [h \in { cols[x] : x \in 1..Len(cols) } |-> CellOf(h, r)]]

UploadSheets ==
    /\ pc = "idle"
    /\ \E cols \in HeaderRows, n \in 0..MaxSheetRows : Upload(cols, SheetRows(cols, n))

NextMapper ==
    \/ UploadSheets

SpecMapper == InitBatch /\ [][NextMapper]_vars

----------------------------------------------------------------------------
(* vCard serializer                                                        *)

Builds == {"a", "app", "app2"}

Line(name, value) == [name |-> name, value |-> value]

\* p.get(k, "") or ""
get(p, k) == IF k \in DOMAIN p THEN p[k] ELSE <<>>

\* src/a.py and src/app.py: one f-string, every line always there
vcard_from_dict(p) ==
    LET first == get(p, "First_Name")
        last  == get(p, "Last_Name")
    IN  << Line("BEGIN:VCARD", <<>>),
           Line("VERSION", <<"3", ".", "0">>),
           Line("N", last \o <<";">> \o first),
           Line("FN", first \o <<" ">> \o last),
           Line("ORG", get(p, "Company")),
           Line("TITLE", get(p, "Role")),
           Line("TEL;TYPE=CELL", get(p, "Mobile")),
           Line("EMAIL", get(p, "Email")),
           Line("URL", get(p, "Website")),
           Line("ADR;TYPE=WORK", get(p, "Location")),
           Line("NOTE", get(p, "Notes")),
           Line("END:VCARD", <<>>) >>

\* src/app2.py: a list of lines, the contact lines appended only when the
\* attribute is not empty
vcard_from_Person(p) ==
    << Line("BEGIN:VCARD", <<>>),
       Line("VERSION", <<"3", ".", "0">>),
       Line("N", p.LastName \o <<";">> \o p.FirstName \o <<";", ";", ";">>),
       Line("FN", strip(p.FirstName \o <<" ">> \o p.LastName)),
       Line("TITLE", p.Role),
       Line("ORG", p.Company) >>
    \o (IF p.Email # <<>> THEN << Line("EMAIL;TYPE=INTERNET", p.Email) >> ELSE <<>>)
    \o (IF p.Mobile # <<>> THEN << Line("TEL;TYPE=CELL", p.Mobile) >> ELSE <<>>)
    \o (IF p.Phone # <<>> THEN << Line("TEL;TYPE=WORK,VOICE", p.Phone) >> ELSE <<>>)
    \o (IF p.Website # <<>> THEN << Line("URL", p.Website) >> ELSE <<>>)
    \o (IF p.Address # <<>>
        THEN << Line("ADR;TYPE=WORK", <<";", ";">> \o p.Address \o <<";", ";", ";", ";">>) >>
        ELSE <<>>)
    \o << Line("END:VCARD", <<>>) >>

vcard_from_person(v, p) == IF v = "app2" THEN vcard_from_Person(p) ELSE vcard_from_dict(p)

\* A key left out of the dict, an empty value, or a value.
Absent == "absent"

Restrict(f, keys) == [k \in keys |-> f[k]]

\* person dicts of src/a.py and src/app.py
PersonDicts ==
    { Restrict(f, { k \in DOMAIN f : f[k] # <<Absent>> }) :
        f \in [ First_Name : {sal, <<>>},
                Last_Name  : {<<"b">>},
                Company    : {<<"m">>, <<>>, <<Absent>>},
                Role       : {<<"c">>, <<>>},
                Mobile     : {sp966 \o s5 \o Fill(8), <<>>, <<Absent>>},
                Email      : {sa_b, <<>>, <<Absent>>},
                Website    : {<<"w">>, <<>>},
                Location   : {<<"r">>, <<Absent>>},
                Notes      : {<<"n">>, <<>>, <<Absent>>} ] }

\* Person objects of src/app2.py: every attribute is there, some empty
Persons ==
    [ FirstName : {sal, <<>>},
      LastName  : {<<"b">>},
      Company   : {<<"m">>, <<>>},
      Role      : {<<"c">>, <<>>},
      Mobile    : {sp966 \o s5 \o Fill(8), <<>>},
      Phone     : {<<"0", "1", "1">>, <<>>},
      Email     : {sa_b, <<>>},
      Website   : {<<"w">>, <<>>},
      Address   : {<<"r">>, <<>>} ]

InitVCard ==
    /\ call = "none"
    /\ variant \in Builds
    /\ arg \in IF variant = "app2" THEN Persons ELSE PersonDicts
    /\ ret = None
    /\ ret2 = None
    /\ BatchIdle
    /\ SingleIdle

CallVCard ==
    /\ call = "none"
    /\ call' = "vcard"
    /\ ret' = vcard_from_person(variant, arg)
    /\ UNCHANGED <<arg, ret2>>
    /\ UNCHANGED batchVars
    /\ UNCHANGED singleVars

NextVCard ==
    \/ CallVCard

SpecVCard == InitVCard /\ [][NextVCard]_vars

----------------------------------------------------------------------------
(* Single Employee Entry page.  Each action is one run of the script.      *)
(* src/a.py draws the widgets inside st.form("single_form"): the values of *)
(* the Department and Role widgets reach the script only with a press of   *)
(* one of the two submit buttons.  src/app.py has no form and no Refresh   *)
(* button: every change of a widget is followed by a run.                  *)

\* st.selectbox(label, options, index=idx, key=...): what the widget returns
\* in a run where the browser holds the value chosen.  Which of the two
\* comes back depends on whether Streamlit takes the widget of this run to
\* be the widget of the last run (its options or its index argument may have
\* changed); a value that is not among the options never comes back.
selectbox_unchecked(options, idx, chosen) == {options[idx + 1], chosen}

selectbox(options, idx, chosen) ==
    {options[idx + 1]} \cup ({chosen} \cap Range(options))

\* The dict built after a press of Generate; the text inputs are the record inp.
person_of(inp, d, r) ==
    [First_Name |-> normalize_name(inp.first_in),
     Last_Name  |-> normalize_name(inp.last_in),
     Department |-> d,
     Role       |-> r,
     Company    |-> inp.company,
     Mobile     |-> normalize_saudi_mobile(inp.mobile_raw)[1],
     Email      |-> normalize_email(inp.email_raw)[1]]

\* The end of a run of the page: the archive of the one person and the
\* download button when Generate was pressed, nothing otherwise.
single_outputs(gen, inp, d, r) ==
    /\ submitted' = gen
    /\ person' = IF gen THEN person_of(inp, d, r) ELSE NoPerson
    /\ zipf' = IF gen THEN outputs_of(person', 1, download_options, <<>>) ELSE <<>>
    /\ offered' = gen
    /\ raised_at' = 0
    /\ UNCHANGED <<variant, pc, columns, df, mapped, duplicates, invalids, clean_df, counts,
                   batch_root_name, safe_root, download_options>>
    /\ UNCHANGED normVars

\* src/a.py lines 476-562: a run after a press of "Refresh Roles" (refresh) or
\* of "Generate" (gen), with d and r the values of the two selectboxes in the
\* submitted form.
run_single_a(d, r, refresh, gen, inp) ==
    LET sd     == IF refresh THEN d ELSE selected_department
        sr     == IF refresh THEN DEPARTMENTS(d)[1] ELSE selected_role
        roles_for_dept == DEPARTMENTS(sd)
        current_role   == IF sr \in Range(roles_for_dept) THEN sr ELSE roles_for_dept[1]
        idx    == index(roles_for_dept, current_role)
    IN  /\ dept' = d
        /\ selected_department' = sd
        /\ role_index' = idx
        /\ role' \in selectbox(roles_for_dept, idx, r)
        /\ selected_role' = role'
        /\ single_outputs(gen, inp, d, role')

\* src/app.py lines 462-556: a run with d the value of the Department
\* selectbox and r the value held under the key role_select.
run_single_app(d, r, gen, inp) ==
    LET changed == d # selected_department
        sd     == IF changed THEN d ELSE selected_department
        rs     == IF changed THEN DEPARTMENTS(d)[1] ELSE r
        roles_for_dept == DEPARTMENTS(sd)
        role_select    == IF roles_for_dept = <<>> THEN <<>>
                          ELSE IF rs \in Range(roles_for_dept) THEN rs ELSE roles_for_dept[1]
        idx    == IF roles_for_dept = <<>> THEN 0 ELSE index(roles_for_dept, role_select)
    IN  /\ dept' = d
        /\ selected_department' = sd
        /\ role_index' = idx
        /\ role' \in (IF roles_for_dept = <<>> THEN {<<>>}
                      ELSE selectbox(roles_for_dept, idx, role_select))
        /\ selected_role' = role'
        /\ single_outputs(gen, inp, d, selected_role')

\* the text inputs of the form: a plain name, and one to be trimmed and capitalized
SingleInputs ==
    { [first_in |-> sal, last_in |-> <<"b">>, company |-> <<"m">>,
       mobile_raw |-> s05 \o Fill(8), email_raw |-> sA_b],
      [first_in |-> <<" ">> \o sal, last_in |-> <<"B">>, company |-> <<>>,
       mobile_raw |-> <<>>, email_raw |-> <<>>] }

\* the departments the user picks among: two that share no role with the
\* others, and two that share "Senior Analyst" and "Outsourced"
DepartmentChoices == {"PMO", "IT", "Product", "Legal"}

\* what the Role selectbox of the last run offered
RolesShown == Range(DEPARTMENTS(selected_department))

\* src/app.py: the user picks a department; the run that follows
SelectDepartment ==
    /\ variant = "app"
    /\ \E d \in DepartmentChoices :
           d # dept /\ run_single_app(d, selected_role, FALSE, CHOOSE inp \in SingleInputs : TRUE)

\* src/app.py: the user picks a role; the run that follows
SelectRole ==
    /\ variant = "app"
    /\ \E r \in RolesShown :
           r # role /\ run_single_app(dept, r, FALSE, CHOOSE inp \in SingleInputs : TRUE)

\* src/a.py: the user sets the two selectboxes and presses "Refresh Roles"
RefreshRoles ==
    /\ variant = "a"
    /\ \E d \in DepartmentChoices, r \in RolesShown :
           run_single_a(d, r, TRUE, FALSE, CHOOSE inp \in SingleInputs : TRUE)

\* the user fills the form and presses "Generate"
GenerateSingle ==
    \E inp \in SingleInputs :
        IF variant = "a"
        THEN \E d \in DepartmentChoices, r \in RolesShown :
                 run_single_a(d, r, FALSE, TRUE, inp)
        ELSE run_single_app(dept, selected_role, TRUE, inp)

InitSingle ==
    /\ call = "none"
    /\ arg = <<>>
    /\ ret = None
    /\ ret2 = None
    /\ variant \in Variants
    /\ BatchIdle
    /\ SingleIdle

NextSingle ==
    \/ SelectDepartment
    \/ SelectRole
    \/ RefreshRoles
    \/ GenerateSingle

SpecSingle == InitSingle /\ [][NextSingle]_vars

----------------------------------------------------------------------------
(* src/app2.py: the "Batch (Excel)" page of the signature and card suite.  *)
(* The Email tab and the Card tab hold the same code; one page is modelled. *)
(* Here mapped holds the list of Person objects and download_options the   *)
(* scenarios chosen in the sidebar.                                         *)

\* TODAY = datetime.now().strftime("%Y-%m-%d")
TODAY == <<"2", "0", "2", "6", "-", "1", "1", "-", "0", "2">>

\* A cell of the sheet as pandas reads it: a str, an int, or nan (no value).
StrCell(s) == [t |-> "str", v |-> s]
IntCell(n) == [t |-> "int", v |-> n]
NanCell    == [t |-> "nan", v |-> 0]

\* df.fillna(""): every cell without a value becomes the empty str
fillna(rows) ==
    [i \in 1..Len(rows) |->
        [c \in DOMAIN rows[i] |-> IF rows[i][c].t = "nan" THEN StrCell(<<>>) ELSE rows[i][c]]]

Digit(n) == <<"0", "1", "2", "3", "4", "5", "6", "7", "8", "9">>[n + 1]

\* str(n) for an int n >= 0
RECURSIVE str_int(_)
str_int(n) == IF n < 10 THEN <<Digit(n)>> ELSE str_int(n \div 10) \o <<Digit(n % 10)>>

\* str(cell)
str(cell) ==
    IF cell.t = "str" THEN cell.v
    ELSE IF cell.t = "int" THEN str_int(cell.v)
    ELSE <<"n", "a", "n">>

expected ==
    << "FirstName", "LastName", "Arabic_Name", "Role", "Email", "Phone",
       "Mobile", "Company", "Department", "Website", "LinkedIn", "Address" >>

Person_untrimmed(row) == [c \in Range(expected) |-> str(row[c])]

\* Person(FirstName=str(row["FirstName"]).strip(), ...)
Person(row) == [c \in Range(expected) |-> strip(str(row[c]))]

missing_columns_first(cols) ==
    LET m == SelectSeq(expected, LAMBDA c : c \notin Range(cols))
    IN  IF m = <<>> THEN <<>> ELSE <<m[1]>>

\* missing = [c for c in expected if c not in df.columns]
missing_columns(cols) == SelectSeq(expected, LAMBDA c : c \notin Range(cols))

\* src/app2.py lines 261-288: what the call raises, or the pair it returns
people_from_excel(cols, rows) ==
    LET frame   == fillna(rows)
        missing == missing_columns(cols)
    IN  IF missing # <<>>
        THEN [exc |-> ValueError, missing |-> missing, returned |-> FALSE,
              people |-> <<>>, df |-> <<>>]
        ELSE [exc |-> NoExc, missing |-> <<>>, returned |-> TRUE,
              people |-> [i \in 1..Len(frame) |-> Person(frame[i])], df |-> frame]

\* ch.isalnum() over the characters of the model
Alnum == AsciiLetters \cup UnicodeDigits

\* Person.safe_slug
safe_slug(p) ==
    LET base == replace(p.FirstName \o <<"_">> \o p.LastName \o <<"_">> \o p.Role, " ", "_")
    IN  SelectSeq(base, LAMBDA c : c \in Alnum \cup {"_", "-"})

\* The last scenario is written with an en dash in the source ("1-3").
SCENARIOS ==
    << "Full Package (per-employee folders)",
       "Business Cards Only (flat folder)",
       "Email Signatures Only (flat folder)",
       "Master Folder (subfolders of 1-3)" >>

base_full   == <<"G", "e", "n", "e", "r", "a", "t", "i", "o", "n", "_">> \o TODAY \o <<"/">>
base_cards  == <<"B", "u", "s", "i", "n", "e", "s", "s", "_", "C", "a", "r", "d", "s", "_">> \o TODAY \o <<"/">>
base_sigs   == <<"E", "m", "a", "i", "l", "_", "S", "i", "g", "n", "a", "t", "u", "r", "e", "s", "_">> \o TODAY \o <<"/">>
base_master == <<"M", "a", "s", "t", "e", "r", "_">> \o TODAY \o <<"/">>
m_full      == base_master \o <<"F", "u", "l", "l", "_", "P", "a", "c", "k", "a", "g", "e", "/">>
m_cards     == base_master \o <<"B", "u", "s", "i", "n", "e", "s", "s", "_", "C", "a", "r", "d", "s", "_", "O", "n", "l", "y", "/">>
m_sigs      == base_master \o <<"E", "m", "a", "i", "l", "_", "S", "i", "g", "n", "a", "t", "u", "r", "e", "s", "_", "O", "n", "l", "y", "/">>

\* z.writestr(dir, ""): the entry that stands for a folder of the i-th person
NoData(i) == [kind |-> "empty", row |-> i]

\* The seven entries of one person's folder under base (scenario 1, and the
\* Full_Package part of scenario 4), in the order they are written.
package_entries(base, slug, i) ==
    LET emp_dir == base \o slug \o <<"/">>
        qr_dir  == emp_dir \o <<"Q", "R", "_", "C", "o", "d", "e", "s", "/">>
    IN  << Entry(qr_dir, NoData(i)),
           Entry(emp_dir, NoData(i)),
           Entry(qr_dir \o slug \o s_png, Payload("qr_png", i)),
           Entry(qr_dir \o slug \o s_svg, Payload("qr_svg", i)),
           Entry(qr_dir \o slug \o s_vcf, Payload("vcf", i)),
           Entry(emp_dir \o <<"E", "m", "a", "i", "l", "_", "S", "i", "g", "n", "a", "t", "u", "r", "e", ".", "p", "n", "g">>, Payload("signature_png", i)),
           Entry(emp_dir \o <<"B", "u", "s", "i", "n", "e", "s", "s", "_", "C", "a", "r", "d", ".", "p", "d", "f">>, Payload("business_card_pdf", i)) >>

card_entry(base, slug, i) == << Entry(base \o slug \o s_pdf, Payload("business_card_pdf", i)) >>

sig_entry(base, slug, i)  == << Entry(base \o slug \o s_png, Payload("signature_png", i)) >>

person_entries_master_full_only(p, i, chosen_scenarios) ==
    LET slug == safe_slug(p)
    IN  (IF SCENARIOS[1] \in chosen_scenarios THEN package_entries(base_full, slug, i) ELSE <<>>)
        \o (IF SCENARIOS[2] \in chosen_scenarios THEN card_entry(base_cards, slug, i) ELSE <<>>)
        \o (IF SCENARIOS[3] \in chosen_scenarios THEN sig_entry(base_sigs, slug, i) ELSE <<>>)
        \o (IF SCENARIOS[4] \in chosen_scenarios THEN package_entries(m_full, slug, i) ELSE <<>>)

\* the body of "for p in people" for the i-th person
person_entries(p, i, chosen_scenarios) ==
    LET slug == safe_slug(p)
    IN  (IF SCENARIOS[1] \in chosen_scenarios THEN package_entries(base_full, slug, i) ELSE <<>>)
        \o (IF SCENARIOS[2] \in chosen_scenarios THEN card_entry(base_cards, slug, i) ELSE <<>>)
        \o (IF SCENARIOS[3] \in chosen_scenarios THEN sig_entry(base_sigs, slug, i) ELSE <<>>)
        \o (IF SCENARIOS[4] \in chosen_scenarios
            THEN package_entries(m_full, slug, i) \o card_entry(m_cards, slug, i)
                 \o sig_entry(m_sigs, slug, i)
            ELSE <<>>)

\* src/app2.py lines 337-405: the entries of the archive, in write order
build_zip_for_people(people, chosen_scenarios) ==
    Flatten([i \in 1..Len(people) |-> person_entries(people[i], i, chosen_scenarios)])

\* The run that follows an upload: people_from_excel inside try/except; the
\* Generate button is drawn only when the call returned.
UploadExcel(cols, rows) ==
    /\ variant = "app2"
    /\ pc = "idle"
    /\ columns' = cols
    /\ df' = rows
    /\ call' = "people_from_excel"
    /\ ret' = people_from_excel(cols, rows)
    /\ mapped' = ret'.people
    /\ pc' = IF ret'.exc # NoExc THEN "error" ELSE "loaded"
    /\ zipf' = <<>>
    /\ offered' = FALSE
    /\ raised_at' = 0
    /\ UNCHANGED <<variant, duplicates, invalids, clean_df, counts, batch_root_name, safe_root,
                   download_options>>
    /\ UNCHANGED <<arg, ret2>>
    /\ UNCHANGED singleVars

\* The run that follows a press of "Generate & Download (Batch ...)" with the
\* scenarios chosen in the sidebar at that time.
GenerateBatch2(chosen_scenarios) ==
    /\ variant = "app2"
    /\ pc = "loaded"
    /\ download_options' = chosen_scenarios
    /\ zipf' = build_zip_for_people(mapped, chosen_scenarios)
    /\ offered' = TRUE
    /\ pc' = "done"
    /\ raised_at' = 0
    /\ UNCHANGED <<variant, columns, df, mapped, duplicates, invalids, clean_df, counts,
                   batch_root_name, safe_root>>
    /\ UNCHANGED normVars
    /\ UNCHANGED singleVars

MaxWorkbookRows == 2

Reverse(q) == [k \in 1..Len(q) |-> q[Len(q) + 1 - k]]

Without(q, out) == SelectSeq(q, LAMBDA c : c \notin out)

\* header rows: the template's, the template's in another order with one more
\* column, and three that lack columns
WorkbookHeaders ==
    { expected,
      <<"Notes">> \o Reverse(expected),
      Without(expected, {"Phone"}),
      Without(Reverse(expected), {"Email", "LinkedIn"}),
      <<"Name">> }

FilledRow(first, last, arabic, role_en, email, phone, mobile, company, department, website, linkedin, address) ==
    [FirstName |-> first, LastName |-> last, Arabic_Name |-> arabic, Role |-> role_en,
     Email |-> email, Phone |-> phone, Mobile |-> mobile, Company |-> company,
     Department |-> department, Website |-> website, LinkedIn |-> linkedin,
     Address |-> address, Notes |-> NanCell, Name |-> StrCell(sal)]

\* a plain row; a row whose cells carry blanks at the ends, one of them an
\* int; a row of the same name and role as the first with most cells empty
WorkbookRows ==
    { FilledRow(StrCell(sal), StrCell(<<"b">>), StrCell(<<"x">>), StrCell(<<"c">>),
                StrCell(sa_b), StrCell(<<"0", "1", "1">>), StrCell(s05 \o Fill(8)),
                StrCell(<<"m">>), StrCell(<<"d">>), StrCell(<<"w">>), StrCell(<<"l">>),
                StrCell(<<"r">>)),
      FilledRow(StrCell(<<" ">> \o sAl_B \o <<" ">>), StrCell(<<"b", " ">>), NanCell,
                StrCell(<<" ", "c", " ", "&", " ", "d">>), StrCell(<<" ">> \o sc_b),
                IntCell(11), IntCell(512347812), StrCell(<<"m", " ">>), NanCell,
                StrCell(<<" ", " ">>), NanCell, StrCell(<<" ", "r", " ", "s", " ">>)),
      FilledRow(StrCell(sal), StrCell(<<"b">>), NanCell, StrCell(<<"c">>), NanCell, NanCell,
                NanCell, NanCell, NanCell, NanCell, NanCell, NanCell) }

\* the sheets: up to MaxWorkbookRows rows under each header row
Workbooks ==
    { [cols |-> h, rows |-> [i \in 1..Len(b) |-> [c \in Range(h) |-> b[i][c]]]] :
          h \in WorkbookHeaders, b \in Batches(WorkbookRows, MaxWorkbookRows) }

UploadWorkbook == pc = "idle" /\ \E w \in Workbooks : UploadExcel(w.cols, w.rows)

GenerateScenarios ==
    pc = "loaded" /\ \E chosen \in SUBSET Range(SCENARIOS) : GenerateBatch2(chosen)

InitApp2 ==
    /\ call = "none"
    /\ arg = <<>>
    /\ ret = None
    /\ ret2 = None
    /\ variant = "app2"
    /\ BatchIdle
    /\ SingleIdle

NextApp2 ==
    \/ UploadWorkbook
    \/ GenerateScenarios

SpecApp2 == InitApp2 /\ [][NextApp2]_vars

----------------------------------------------------------------------------
(* A renderer that raises during an archive build.  In src/a.py and        *)
(* src/app.py each zipf.writestr(path, render(person)) evaluates the       *)
(* renderer first, so the entries before that one are in the ZipFile; in   *)
(* src/app2.py the renderers of a person all run before that person's      *)
(* first entry is written.  Nothing catches the exception inside the loop: *)
(* it ends the run (src/a.py, src/app.py) or reaches the except clause     *)
(* around the page (src/app2.py), and st.download_button is not reached.   *)

written_skipping(z, e) == SubSeq(z, 1, e - 1) \o SubSeq(z, e + 1, Len(z))

\* what the ZipFile holds when the renderer of entry e of z raises
written_before(z, e) == SubSeq(z, 1, e - 1)

\* src/a.py, src/app.py: the archive a run of Generate ZIP Outputs writes when
\* nothing raises
archive_of(opts) ==
    IF variant = "a"
    THEN zip_a(mapped, invalids, duplicates, counts, opts, safe_root_for(variant, batch_root_name))
    ELSE zip_app(mapped, clean_df, counts, opts, safe_root_for(variant, batch_root_name))

\* src/a.py, src/app.py: the run of Generate ZIP Outputs in which the renderer
\* whose bytes would make the e-th entry of the archive raises.
RenderRaises(opts, e) ==
    /\ variant \in Variants
    /\ pc = "loaded"
    /\ variant = "app" => counts.clean # 0
    /\ LET z == archive_of(opts)
       IN  /\ e \in 1..Len(z)
           /\ z[e].payload.kind \notin {"summary", "csv"}
           /\ zipf' = written_before(z, e)
           /\ raised_at' = z[e].payload.row
    /\ safe_root' = safe_root_for(variant, batch_root_name)
    /\ download_options' = opts
    /\ offered' = FALSE
    /\ pc' = "error"
    /\ UNCHANGED <<variant, columns, df, mapped, duplicates, invalids, clean_df, counts,
                   batch_root_name>>
    /\ UNCHANGED normVars
    /\ UNCHANGED singleVars

\* src/app2.py: the run of Generate & Download in which a renderer raises for
\* the i-th person; the except clause shows the error.
RenderRaises2(chosen_scenarios, i) ==
    /\ variant = "app2"
    /\ pc = "loaded"
    /\ i \in 1..Len(mapped)
    /\ LET z == build_zip_for_people(mapped, chosen_scenarios)
           first == { e \in 1..Len(z) : z[e].payload.row >= i }
       IN  zipf' = written_before(z, IF first = {} THEN Len(z) + 1
                                     ELSE CHOOSE e \in first : \A x \in first : e <= x)
    /\ raised_at' = i
    /\ download_options' = chosen_scenarios
    /\ offered' = FALSE
    /\ pc' = "error"
    /\ UNCHANGED <<variant, columns, df, mapped, duplicates, invalids, clean_df, counts,
                   batch_root_name, safe_root>>
    /\ UNCHANGED normVars
    /\ UNCHANGED singleVars

UploadSheetOfPeople == variant \in Variants /\ UploadPeople

GenerateArchive == IF variant = "app2" THEN GenerateScenarios ELSE GenerateOutputs

GenerateRaising ==
    /\ pc = "loaded"
    /\ IF variant = "app2"
       THEN \E chosen \in SUBSET Range(SCENARIOS) : \E i \in 1..Len(mapped) :
                RenderRaises2(chosen, i)
       ELSE \E opts \in SUBSET Scenarios : \E e \in 1..Len(archive_of(opts)) :
                RenderRaises(opts, e)

InitRender ==
    /\ call = "none"
    /\ arg = <<>>
    /\ ret = None
    /\ ret2 = None
    /\ variant \in Builds
    /\ BatchIdle
    /\ SingleIdle

NextRender ==
    \/ UploadSheetOfPeople
    \/ UploadWorkbook
    \/ GenerateArchive
    \/ GenerateRaising

SpecRender == InitRender /\ [][NextRender]_vars

----------------------------------------------------------------------------
(* Sheets whose rows carry one subscriber number in several shapes         *)

MaxShapeRows == 2

\* 512347812 as 5XXXXXXXX, 05XXXXXXXX, 9665XXXXXXXX, +9665XXXXXXXX and
\* 009665XXXXXXXX, twice more with separators, and one other number
MobileShapes ==
    { s5 \o Fill(8),
      s05 \o Fill(8),
      s9665 \o Fill(8),
      sp966 \o s5 \o Fill(8),
      s00966 \o s5 \o Fill(8),
      <<"(", "0", "5", ")", " ">> \o Fill(4) \o <<"-">> \o SubSeq(Fill(8), 5, 8),
      sp966 \o <<" ">> \o s5 \o <<".">> \o Fill(8) \o <<" ">>,
      s05 \o Fill(7) \o <<"9">> }

ShapeRows ==
    { [First_Name |-> sal, Last_Name |-> <<"b">>, Role |-> <<"c">>, Company |-> <<"m">>,
       Mobile |-> mb, Email |-> em] : mb \in MobileShapes, em \in {sa_b, sc_b} }

ShapeBatches == Batches(ShapeRows, MaxShapeRows)

UploadShapes == pc = "idle" /\ \E rows \in ShapeBatches : Upload(CanonicalFields, rows)

NextShapes ==
    \/ UploadShapes
    \/ GenerateOutputs

SpecShapes == InitBatch /\ [][NextShapes]_vars

----------------------------------------------------------------------------
(* Statements about the normalizers, written without the operators that    *)
(* model them                                                              *)

\* The decimal digits of s, in order.
DigitsOf(s) == SelectSeq(s, LAMBDA c : c \in UnicodeDigits)

HasPrefix(s, p) == Len(s) >= Len(p) /\ \A i \in 1..Len(p) : s[i] = p[i]

\* Rule patterns 1-5 are read on the digits of the input, rule pattern 6 on the input.
Pattern1(s) == HasPrefix(DigitsOf(s), s00966) /\ Len(DigitsOf(s)) = 14
Pattern2(s) == HasPrefix(DigitsOf(s), s9665) /\ Len(DigitsOf(s)) = 12
Pattern3(s) == HasPrefix(DigitsOf(s), s05) /\ Len(DigitsOf(s)) = 10
Pattern4(s) == HasPrefix(DigitsOf(s), s5) /\ Len(DigitsOf(s)) = 9
Pattern5(s) == HasPrefix(DigitsOf(s), s966) /\ Len(DigitsOf(s)) = 12
Pattern6(s) == HasPrefix(s, sp966) /\ Len(s) = 13

Pattern1to5(s) == Pattern1(s) \/ Pattern2(s) \/ Pattern3(s) \/ Pattern4(s) \/ Pattern5(s)

\* '+966' followed by 9 digits, 13 characters
IsPlus966Form(s) ==
    /\ Len(s) = 13
    /\ HasPrefix(s, sp966)
    /\ \A i \in 5..13 : s[i] \in UnicodeDigits

\* d is the lower-case (upper-case) form of the character c
LowerOf(c, d) ==
    \/ \E u \in 1..Len(UpperLetters) : c = UpperLetters[u] /\ d = LowerLetters[u]
    \/ (\A u \in 1..Len(UpperLetters) : c # UpperLetters[u]) /\ d = c

UpperOf(c, d) ==
    \/ \E u \in 1..Len(LowerLetters) : c = LowerLetters[u] /\ d = UpperLetters[u]
    \/ (\A u \in 1..Len(LowerLetters) : c # LowerLetters[u]) /\ d = c

\* raw[i..j] is raw without its leading and trailing whitespace
TrimBounds(raw, i, j) ==
    /\ \A k \in 1..(i - 1) : raw[k] \in Whitespace
    /\ \A k \in (j + 1)..Len(raw) : raw[k] \in Whitespace
    /\ i <= j => (raw[i] \notin Whitespace /\ raw[j] \notin Whitespace)
    /\ i > j => (i = Len(raw) + 1 /\ j = Len(raw))

\* n is raw without its leading and trailing whitespace, every letter lower-cased
IsTrimmedLower(n, raw) ==
    \E i \in 1..(Len(raw) + 1) : \E j \in 0..Len(raw) :
        /\ TrimBounds(raw, i, j)
        /\ Len(n) = j - i + 1
        /\ \A k \in 1..Len(n) : LowerOf(raw[i + k - 1], n[k])

\* n is raw without its leading and trailing whitespace, its first character
\* upper-cased and every other character lower-cased
IsTrimmedCapitalized(n, raw) ==
    \E i \in 1..(Len(raw) + 1) : \E j \in 0..Len(raw) :
        /\ TrimBounds(raw, i, j)
        /\ Len(n) = j - i + 1
        /\ \A k \in 1..Len(n) :
              IF k = 1 THEN UpperOf(raw[i], n[1]) ELSE LowerOf(raw[i + k - 1], n[k])

\* C1: every raw input that matches one of rule patterns 1-6 normalizes to
\* valid=true and a value of the form '+966' followed by 9 digits.
C1_PatternsGiveValidPlus966 ==
    (call = "mobile" /\ (Pattern1to5(arg) \/ Pattern6(arg)))
        => (ret[2] = TRUE /\ IsPlus966Form(ret[1]))

\* C2: a non-empty input that matches none of the rewrite rules comes back
\* unchanged (the raw input, not its digits) with valid=false; the empty input
\* gives ("", false).
C2_NoRuleReturnsRawInvalid ==
    call = "mobile" =>
        /\ arg = <<>> => ret = << <<>>, FALSE >>
        /\ (arg # <<>> /\ ~Pattern1to5(arg) /\ ~Pattern6(arg)) => ret = <<arg, FALSE>>

C2_Witness ==
    /\ call = "mobile"
    /\ arg # <<>>
    /\ ~Pattern1to5(arg) /\ ~Pattern6(arg)
    /\ DigitsOf(arg) # arg
    /\ DigitsOf(arg) # <<>>
    /\ ret = <<arg, FALSE>>

\* C3: rule 6 is evaluated on the original string: a raw input that starts with
\* '+966', has length 13 and matches no earlier rule is returned unchanged with
\* valid=true.
C3_Rule6OnOriginal ==
    (call = "mobile" /\ Pattern6(arg) /\ ~Pattern1to5(arg)) => ret = <<arg, TRUE>>

\* C4: normalize_saudi_mobile is idempotent on valid inputs: if normalize(x) =
\* (n, true) then normalize(n) = (n, true), and an already-normalized
\* '+966XXXXXXXXX' number passes through unchanged.
C4_MobileIdempotent ==
    /\ (call = "mobile2" /\ ret[2] = TRUE) => ret2 = <<ret[1], TRUE>>
    /\ (call = "mobile" /\ IsPlus966Form(arg)) => ret = <<arg, TRUE>>

C4_Witness ==
    /\ call = "mobile2"
    /\ ret[2] = TRUE
    /\ arg # ret[1]
    /\ Pattern3(arg)
    /\ ret2 = <<ret[1], TRUE>>

\* C5: normalize_email returns the trimmed, lower-cased input, valid exactly
\* when that string holds one '@'; 'Foo@Bar.COM' gives ('foo@bar.com', true),
\* 'a@b@c' is invalid, the empty input gives ("", false).
C5_EmailTrimLowerOneAt ==
    call = "email" =>
        /\ arg = <<>> => ret = << <<>>, FALSE >>
        /\ IsTrimmedLower(ret[1], arg)
        /\ ret[2] = (Cardinality({ i \in 1..Len(ret[1]) : ret[1][i] = "@" }) = 1)
        /\ arg = sFooBar => ret = <<sfoobar, TRUE>>
        /\ arg = sa_b_c => ret[2] = FALSE

C5_Witness ==
    /\ call = "email"
    /\ arg = <<" ">> \o sa_B \o s_c
    /\ ret = << <<"a", " ", "b", "@", "c">>, TRUE >>

----------------------------------------------------------------------------
(* Statements about the batch classification                               *)

Classified == pc \in {"loaded", "stopped", "done"}


\* Row i's normalized field f is non-empty and another row has the same value.
Collides(i, f) ==
    /\ mapped[i][f] # <<>>
    /\ \E j \in 1..Len(mapped) : j # i /\ mapped[j][f] = mapped[i][f]

\* C7: in every batch variant a row is flagged duplicate exactly when its
\* normalized email is non-empty and occurs at least twice in the batch, or its
\* normalized mobile is non-empty and occurs at least twice; an empty normalized
\* field never makes a row a duplicate.
C7_DuplicateIffNonEmptyCollision ==
    Classified =>
        \A i \in 1..Len(mapped) :
            (i \in Range(duplicates))
                <=> (Collides(i, "Email_Normalized") \/ Collides(i, "Mobile_Normalized"))

C9_CleanIsComplement ==
    Classified =>
        /\ counts.total = Len(df)
        /\ counts.clean + Cardinality(Range(invalids) \cup Range(duplicates)) = counts.total
        /\ variant = "app" =>
              /\ Range(clean_df) \cap Range(invalids) = {}
              /\ Range(clean_df) \cap Range(duplicates) = {}
              /\ Range(clean_df) \cup Range(invalids) \cup Range(duplicates) = 1..Len(df)
              /\ counts.clean = Cardinality(Range(clean_df))

C9_Witness ==
    /\ pc = "loaded"
    /\ counts.total = 3
    /\ counts.clean = 1
    /\ Range(clean_df) = {2}
    /\ Range(invalids) = {1, 3}
    /\ Range(duplicates) = {1, 3}

\* Rows a, b, c of a three-row batch: a has a valid email and mobile, b has a's
\* normalized email and a distinct valid mobile, c has another valid email and
\* an invalid mobile.
ScenarioABC ==
    /\ Len(mapped) = 3
    /\ \E a \in 1..3 : \E b \in 1..3 \ {a} : \E c \in 1..3 \ {a, b} :
          /\ mapped[a].Email_Valid /\ mapped[a].Mobile_Valid
          /\ mapped[b].Email_Normalized = mapped[a].Email_Normalized
          /\ mapped[b].Mobile_Valid
          /\ mapped[b].Mobile_Normalized # mapped[a].Mobile_Normalized
          /\ mapped[c].Email_Valid
          /\ mapped[c].Email_Normalized # mapped[a].Email_Normalized
          /\ ~mapped[c].Mobile_Valid

\* The rows that have a per-record artifact in the archive.
RowsInArchive == { zipf[k].payload.row : k \in { x \in 1..Len(zipf) : zipf[x].payload.kind # "summary"
                                                                      /\ zipf[x].payload.kind # "csv" } }

\* C10 as stated: for the batch A, B, C the summary reports total=3, clean=1,
\* invalid=1, duplicate=2, and the clean-only archive holds artifacts for row A
\* only.
C10_ScenarioAsStated ==
    (Classified /\ ScenarioABC) =>
        /\ counts = [total |-> 3, clean |-> 1, invalid |-> 1, duplicate |-> 2]
        /\ pc = "done" => Cardinality(RowsInArchive) = 1

\* C10 amended: for the batch A, B, C the clean-only build reports total=3,
\* clean=0, invalid=1, duplicate=2 (A and B are both duplicates, so no row is
\* clean), and Generate stops without an archive or any per-record artifact.
C10_ScenarioNoCleanRow ==
    (Classified /\ ScenarioABC) =>
        /\ counts = [total |-> 3, clean |-> 0, invalid |-> 1, duplicate |-> 2]
        /\ pc # "done"
        /\ zipf = <<>>
        /\ offered = FALSE

C10_Witness ==
    /\ ScenarioABC
    /\ variant = "app"
    /\ pc = "stopped"
    /\ \E i \in 1..3 : df[i].Email = sa_b
    /\ \E i \in 1..3 : df[i].Email = sA_b

----------------------------------------------------------------------------
----------------------------------------------------------------------------
\* The reorderings of n rows: new row k is old row p[k].
Perms(n) == { p \in [1..n -> 1..n] : \A a, b \in 1..n : p[a] = p[b] => a = b }

Permuted(t, p) == [k \in Indices(t) |-> t[p[k]]]

\* C12: the classification does not depend on the order of the rows: for every
\* reordering of the uploaded sheet, each record is in the duplicate set, the
\* invalid set and the clean set exactly when it was before, and the counts
\* total, clean, invalid, duplicate are the same.
C12_PermutationInvariant ==
    pc = "loaded" =>
        \A p \in Perms(Len(df)) :
            LET t == normalize_table(variant, columns, Permuted(df, p))
                c == classify(variant, t.rows)
            IN  /\ t.exc = NoExc
                /\ c.exc = NoExc
                /\ c.counts = counts
                /\ \A k \in Indices(df) :
                      /\ (k \in Range(c.duplicates)) <=> (p[k] \in Range(duplicates))
                      /\ (k \in Range(c.invalids)) <=> (p[k] \in Range(invalids))
                      /\ (k \in Range(c.clean_df)) <=> (p[k] \in Range(clean_df))

\* three rows, the first two duplicates of each other, the third clean
C12_Witness ==
    /\ Classified
    /\ Len(df) = 3
    /\ Range(duplicates) = {1, 2}
    /\ invalids = <<>>
    /\ Range(clean_df) = {3}

----------------------------------------------------------------------------
\* The states in which the run has computed safe_root from the text input.
RootComputed == (variant = "app" /\ Classified) \/ pc = "done"

\* s with every maximal run of characters outside [A-Za-z0-9._-] replaced by one
\* underscore: the first character of a run is kept as "_", the rest dropped.
RunsCollapsed(s) ==
    LET kept == SelectSeq([i \in 1..Len(s) |-> i],
                          LAMBDA i : s[i] \in SafeChars \/ i = 1 \/ s[i - 1] \in SafeChars)
    IN  [k \in 1..Len(kept) |-> IF s[kept[k]] \in SafeChars THEN s[kept[k]] ELSE "_"]

\* s without its leading and trailing underscores
UnderscoresTrimmed(s) ==
    LET inner == { i \in 1..Len(s) : s[i] # "_" }
    IN  IF inner = {} THEN <<>>
        ELSE SubSeq(s, CHOOSE i \in inner : \A j \in inner : i <= j,
                       CHOOSE i \in inner : \A j \in inner : i >= j)

\* C13: the sanitized root is never empty, holds only characters of
\* [A-Za-z0-9._-], neither starts nor ends with an underscore, and is the typed
\* name with each maximal run of other characters replaced by one underscore and
\* the underscores at both ends removed, or the default name when nothing is
\* left; "Q1 Hires / 2024!" gives "Q1_Hires_2024".
C13_RootSanitized ==
    RootComputed =>
        LET core == UnderscoresTrimmed(RunsCollapsed(batch_root_name))
        IN  /\ safe_root # <<>>
            /\ \A i \in 1..Len(safe_root) : safe_root[i] \in SafeChars
            /\ safe_root[1] # "_"
            /\ safe_root[Len(safe_root)] # "_"
            /\ safe_root = IF core = <<>> THEN default_root_name(variant) ELSE core
            /\ batch_root_name = sQ1_Hires_2024_raw => safe_root = sQ1_Hires_2024

C13_Witness ==
    /\ RootComputed
    /\ batch_root_name = sQ1_Hires_2024_raw
    /\ safe_root = sQ1_Hires_2024

----------------------------------------------------------------------------
(* Statements about the archive layout                                     *)

\* The records the build writes artifacts for: the clean rows in src/app.py,
\* every mapped row in src/a.py.
Included == IF variant = "a" THEN Indices(mapped) ELSE Range(clean_df)

\* s with every space replaced by an underscore
Underscored(s) == [i \in 1..Len(s) |-> IF s[i] = " " THEN "_" ELSE s[i]]

Slash(a, b) == a \o <<"/">> \o b

FirstLast(i) == Underscored(mapped[i].First_Name \o <<"_">> \o mapped[i].Last_Name)

RecordFolder(i) ==
    Underscored(mapped[i].First_Name \o <<"_">> \o mapped[i].Last_Name \o <<"_">>
                \o mapped[i].Role \o <<"_">> \o mapped[i].Company)

\* The paths of the archive entries written for record i.
PathsOf(i) ==
    { zipf[k].path : k \in { x \in 1..Len(zipf) : zipf[x].payload.kind \notin {"summary", "csv"}
                                                   /\ zipf[x].payload.row = i } }

\* {root}/{first}_{last}_{role}_{company}/... : the six paths of one record
FullPackagePaths(i) ==
    LET folder == Slash(safe_root, RecordFolder(i))
        qr     == Slash(Slash(folder, <<"Q", "R">>), FirstLast(i))
    IN  { Slash(folder, <<"S", "i", "g", "n", "a", "t", "u", "r", "e", "_", "E", "N", ".", "p", "d", "f">>),
          Slash(folder, <<"S", "i", "g", "n", "a", "t", "u", "r", "e", "_", "A", "R", ".", "p", "d", "f">>),
          Slash(folder, <<"B", "u", "s", "i", "n", "e", "s", "s", "C", "a", "r", "d", ".", "p", "d", "f">>),
          qr \o <<".", "p", "n", "g">>,
          qr \o <<".", "s", "v", "g">>,
          qr \o <<".", "v", "c", "f">> }

\* C14: with Full Package selected, each included record has its six entries
\* {root}/{first}_{last}_{role}_{company}/Signature_EN.pdf, Signature_AR.pdf,
\* BusinessCard.pdf, QR/{first}_{last}.png, .svg and .vcf, spaces written as
\* underscores and the folder directly under the sanitized root; with only
\* Full Package selected these are all its entries.
C14_FullPackageUnderRoot ==
    (pc = "done" /\ Full \in download_options) =>
        \A i \in Included :
            /\ FullPackagePaths(i) \subseteq PathsOf(i)
            /\ download_options = {Full} => PathsOf(i) = FullPackagePaths(i)

\* {root}/BusinessCards_Flat/{first}_{last}.pdf
CardFlatPath(i) ==
    Slash(Slash(safe_root, <<"B", "u", "s", "i", "n", "e", "s", "s", "C", "a", "r", "d", "s", "_", "F", "l", "a", "t">>),
          FirstLast(i)) \o <<".", "p", "d", "f">>

\* {root}/Signatures_Flat/{first}_{last}_EN.pdf and ..._AR.pdf
SignatureFlatPaths(i) ==
    LET base == Slash(Slash(safe_root, <<"S", "i", "g", "n", "a", "t", "u", "r", "e", "s", "_", "F", "l", "a", "t">>),
                      FirstLast(i))
    IN  { base \o <<"_", "E", "N", ".", "p", "d", "f">>, base \o <<"_", "A", "R", ".", "p", "d", "f">> }

\* C15: the flat scenarios write each included record's files into one shared
\* folder directly under the sanitized root: Business Cards Only writes
\* {root}/BusinessCards_Flat/{first}_{last}.pdf, Email Signatures Only writes
\* {root}/Signatures_Flat/{first}_{last}_EN.pdf and ..._AR.pdf.
C15_FlatFoldersUnderRoot ==
    pc = "done" =>
        \A i \in Included :
            /\ Cards \in download_options => CardFlatPath(i) \in PathsOf(i)
            /\ Signatures \in download_options => SignatureFlatPaths(i) \subseteq PathsOf(i)
            /\ download_options = {Cards} => PathsOf(i) = {CardFlatPath(i)}
            /\ download_options = {Signatures} => PathsOf(i) = SignatureFlatPaths(i)

SameIdentity(i, j) ==
    /\ mapped[i].First_Name = mapped[j].First_Name
    /\ mapped[i].Last_Name = mapped[j].Last_Name
    /\ mapped[i].Role = mapped[j].Role
    /\ mapped[i].Company = mapped[j].Company

\* The positions in the archive of the entries named path.
EntriesNamed(path) == { k \in 1..Len(zipf) : zipf[k].path = path }

\* The entry a reader gets for a name: the last one written under it.
LastNamed(path) == zipf[CHOOSE k \in EntriesNamed(path) : \A x \in EntriesNamed(path) : x <= k]

\* C16 as stated: when two included records agree in first name, last name,
\* role and company, the archive holds exactly one entry for each Full Package
\* path of theirs, and it carries the later record's payload.
C16_OneEntryPerCollidingPath ==
    (pc = "done" /\ Full \in download_options) =>
        \A i, j \in Included :
            (i < j /\ SameIdentity(i, j)) =>
                \A path \in PathsOf(i) :
                    /\ Cardinality(EntriesNamed(path)) = 1
                    /\ LastNamed(path).payload.row >= j

\* C16 amended: two included records that agree in first name, last name, role
\* and company are written to the same paths, and nothing is removed: for every
\* entry of the earlier record the archive holds a later entry of the same name
\* and kind for the later record, so each such name occurs once per record; a
\* reader that looks the name up gets the later record's payload, and the build
\* ends with the download offered.
C16_BothEntriesKeptLaterRead ==
    (pc = "done" /\ Full \in download_options) =>
        /\ offered
        /\ \A i, j \in Included :
              (i < j /\ SameIdentity(i, j)) =>
                  /\ PathsOf(i) = PathsOf(j)
                  /\ \A k \in 1..Len(zipf) :
                        (zipf[k].payload.kind \notin {"summary", "csv"} /\ zipf[k].payload.row = i) =>
                            /\ \E x \in EntriesNamed(zipf[k].path) :
                                  /\ x > k
                                  /\ zipf[x].payload = Payload(zipf[k].payload.kind, j)
                            /\ LastNamed(zipf[k].path).payload.row >= j

C16_Witness ==
    /\ pc = "done"
    /\ download_options = {Full}
    /\ Len(mapped) = 2
    /\ Included = {1, 2}
    /\ SameIdentity(1, 2)
    /\ Len(zipf) = 13

\* The reasons the summary is to give for an invalid record.
ReasonsOf(i) ==
    (IF mapped[i].Email_Valid THEN <<>> ELSE <<"Email">>)
    \o (IF mapped[i].Mobile_Valid THEN <<>> ELSE <<"Mobile">>)

WhoOf(i) == mapped[i].First_Name \o <<" ">> \o mapped[i].Last_Name

\* C17: every batch archive holds {root}/Batch_Summary.txt, which states the
\* total, clean, invalid and duplicate counts and when it was generated, names
\* every invalid record with the reasons Email / Mobile that match its false
\* validity flags, and names every duplicate record with its normalized email
\* and mobile.
C17_SummaryListsInvalidAndDuplicates ==
    pc = "done" =>
        \E k \in 1..Len(zipf) :
            /\ zipf[k].path = Slash(safe_root, <<"B", "a", "t", "c", "h", "_", "S", "u", "m", "m", "a", "r", "y", ".", "t", "x", "t">>)
            /\ zipf[k].payload.kind = "summary"
            /\ LET lines == Range(zipf[k].payload.lines)
               IN  /\ [text |-> "Total Employees", n |-> counts.total] \in lines
                   /\ [text |-> "Clean", n |-> counts.clean] \in lines
                   /\ [text |-> "Invalid", n |-> counts.invalid] \in lines
                   /\ [text |-> "Duplicates", n |-> counts.duplicate] \in lines
                   /\ [text |-> "Generated on", date |-> sToday] \in lines
                   /\ \A i \in Range(invalids) :
                         [text |-> "Invalid entry", who |-> WhoOf(i), reasons |-> ReasonsOf(i)] \in lines
                   /\ \A i \in Range(duplicates) :
                         [text   |-> "Duplicate entry", who |-> WhoOf(i),
                          email  |-> mapped[i].Email_Normalized,
                          mobile |-> mapped[i].Mobile_Normalized] \in lines

----------------------------------------------------------------------------
(* Statements about the Record Mapper                                      *)

Headers == { columns[n] : n \in 1..Len(columns) }

\* The aliases of field k that are headers of the sheet.
Matching(k) == { n \in 1..Len(aliases(k)) : aliases(k)[n] \in Headers }

\* The first of them in the order of the alias list.
FirstAlias(k) == aliases(k)[CHOOSE n \in Matching(k) : \A x \in Matching(k) : n <= x]

\* C18: after an upload each canonical field that has an alias among the
\* headers holds, row by row, the cells of the first such alias in the order
\* of the alias list; a field none of whose aliases is a header (one that
\* differs in case or spacing does not count) is taken from no column.
C18_FirstAliasInListOrder ==
    pc # "idle" =>
        \A k \in Range(CanonicalFields) :
            IF Matching(k) # {}
            THEN /\ Len(mapped) = Len(df)
                 /\ \A i \in Indices(df) :
                       /\ k \in DOMAIN mapped[i]
                       /\ mapped[i][k] = df[i][FirstAlias(k)]
            ELSE \A i \in Indices(mapped) :
                     k \in DOMAIN mapped[i] => mapped[i][k] \in {<<>>, NaN}

\* The columns of the mapped table: the canonical fields and the four derived.
CanonicalColumns ==
    Range(CanonicalFields)
        \cup {"Mobile_Normalized", "Mobile_Valid", "Email_Normalized", "Email_Valid"}

\* C19: every upload maps and classifies; the mapped table has the rows of the
\* sheet in their order and exactly the canonical columns; a canonical field
\* without a matching header is an all-empty column.
C19_UnresolvedFieldsEmpty ==
    pc # "idle" =>
        /\ pc = "loaded"
        /\ Len(mapped) = Len(df)
        /\ \A i \in Indices(mapped) :
              /\ DOMAIN mapped[i] = CanonicalColumns
              /\ \A k \in Range(CanonicalFields) :
                    mapped[i][k] = IF Matching(k) # {} THEN df[i][FirstAlias(k)] ELSE <<>>

----------------------------------------------------------------------------
(* Statements about the vCard                                              *)

\* The value of the record field that a vCard line is to carry, empty when the
\* record has no such field.
FieldValue(dictKey, attribute) ==
    IF variant = "app2" THEN arg[attribute]
    ELSE IF dictKey \in DOMAIN arg THEN arg[dictKey] ELSE <<>>

\* The lines of the returned card between BEGIN:VCARD and END:VCARD, without
\* the VERSION line.
CardFields == SelectSeq(ret, LAMBDA l : l.name \notin {"BEGIN:VCARD", "VERSION", "END:VCARD"})

\* C20: the card opens with BEGIN:VCARD and closes with END:VCARD, and its
\* fields are N, FN, ORG, TITLE, TEL;TYPE=CELL, EMAIL, URL, ADR;TYPE=WORK, NOTE
\* in this order, each present for every record, empty when the record has no
\* value for it, and else carrying the value of the matching record field.
C20_VCardFieldsInFixedOrder ==
    call = "vcard" =>
        /\ ret[1].name = "BEGIN:VCARD"
        /\ ret[Len(ret)].name = "END:VCARD"
        /\ [n \in 1..Len(CardFields) |-> CardFields[n].name]
              = <<"N", "FN", "ORG", "TITLE", "TEL;TYPE=CELL", "EMAIL", "URL", "ADR;TYPE=WORK", "NOTE">>
        /\ CardFields[1].value
              = FieldValue("Last_Name", "LastName") \o <<";">> \o FieldValue("First_Name", "FirstName")
        /\ CardFields[2].value
              = FieldValue("First_Name", "FirstName") \o <<" ">> \o FieldValue("Last_Name", "LastName")
        /\ CardFields[3].value = FieldValue("Company", "Company")
        /\ CardFields[4].value = FieldValue("Role", "Role")
        /\ CardFields[5].value = FieldValue("Mobile", "Mobile")
        /\ CardFields[6].value = FieldValue("Email", "Email")
        /\ CardFields[7].value = FieldValue("Website", "Website")
        /\ CardFields[8].value = FieldValue("Location", "Address")
        /\ CardFields[9].value = FieldValue("Notes", "Notes")

----------------------------------------------------------------------------
(* Single Employee Entry: department and role                              *)

\* C21: in single-entry mode, after any sequence of department selections,
\* role refreshes, role selections and Generate presses, the Role of every
\* generated record is a member of the role list of that record's Department.
C21_RoleInDepartmentList ==
    submitted => person.Role \in Range(DEPARTMENTS(person.Department))

\* C27: after every run of the single-entry page the session's selected role
\* is a member of the role list of the session's selected department, and the
\* index given to the Role selectbox is a valid index into that list.
C27_SessionRoleInDepartmentList ==
    /\ selected_role \in Range(DEPARTMENTS(selected_department))
    /\ role_index \in 0..(Len(DEPARTMENTS(selected_department)) - 1)

\* a record generated after the department was changed and a role other than
\* the first of its list was selected
C27_Witness ==
    /\ submitted
    /\ selected_department # DepartmentKeys[1]
    /\ selected_role # DEPARTMENTS(selected_department)[1]
    /\ role_index > 0

----------------------------------------------------------------------------
(* Errors of a batch run                                                   *)

sBatch_Summary_path == Slash(safe_root, <<"B", "a", "t", "c", "h", "_", "S", "u", "m", "m", "a", "r", "y", ".", "t", "x", "t">>)

\* C22: invalid and duplicate records never abort a batch run: for every
\* parsed batch, also one whose rows are all invalid or duplicate, the run
\* after the upload classifies without an error, and a press of Generate
\* yields an archive, offered for download, that holds Batch_Summary.txt with
\* the invalid and duplicate counts.
C22_InvalidAndDuplicateNeverAbort ==
    /\ pc # "error"
    /\ pc \in {"done", "stopped"} =>
          /\ offered
          /\ \E k \in 1..Len(zipf) :
                /\ zipf[k].path = sBatch_Summary_path
                /\ zipf[k].payload.kind = "summary"
                /\ [text |-> "Invalid", n |-> counts.invalid] \in Range(zipf[k].payload.lines)
                /\ [text |-> "Duplicates", n |-> counts.duplicate] \in Range(zipf[k].payload.lines)

----------------------------------------------------------------------------
(* Statements about src/app2.py                                            *)

\* n is raw without its leading and trailing whitespace
IsTrimmed(n, raw) ==
    \E i \in 1..(Len(raw) + 1) : \E j \in 0..Len(raw) :
        /\ TrimBounds(raw, i, j)
        /\ n = SubSeq(raw, i, j)

\* What a cell of the uploaded sheet reads as: nothing for a cell without a
\* value, the decimal digits of a number, the text itself otherwise.
CellText(cell) == IF cell.t = "nan" THEN <<>> ELSE str(cell)

Lacking == { c \in Range(expected) : c \notin Range(columns) }

\* C24: people_from_excel rejects a table that lacks any of the twelve
\* expected columns: it raises an error that names exactly the lacking
\* columns, returns no Person list, and the request reports the error and
\* builds no archive; when every column is there it returns one Person per
\* row, in row order, each field the trimmed text of the row's cell.
C24_MissingColumnsRejectedElseTrimmedPeople ==
    call = "people_from_excel" =>
        IF Lacking # {}
        THEN /\ ret.exc = ValueError
             /\ Range(ret.missing) = Lacking
             /\ ~ret.returned
             /\ mapped = <<>>
             /\ pc = "error"
             /\ zipf = <<>>
             /\ ~offered
        ELSE /\ ret.exc = NoExc
             /\ ret.returned
             /\ pc \in {"loaded", "done"}
             /\ Len(mapped) = Len(df)
             /\ \A i \in 1..Len(df) : \A c \in Range(expected) :
                   IsTrimmed(mapped[i][c], CellText(df[i][c]))

\* a sheet without the Email and LinkedIn columns was uploaded
C24_Witness ==
    /\ call = "people_from_excel"
    /\ Lacking = {"Email", "LinkedIn"}
    /\ Len(df) = 2
    /\ pc = "error"

\* a sheet with every column, a blank-padded row after a plain one
C24_WitnessAccepted ==
    /\ call = "people_from_excel"
    /\ Lacking = {}
    /\ Len(mapped) = 2
    /\ mapped[2].FirstName = sAl_B
    /\ mapped[2].Phone = <<"1", "1">>

\* The entries of an archive z that lie under base, each with its name
\* relative to base, in the order they were written.
Under(z, base) ==
    LET below == SelectSeq(z, LAMBDA e : HasPrefix(e.path, base))
    IN  [k \in 1..Len(below) |->
            [name    |-> SubSeq(below[k].path, Len(base) + 1, Len(below[k].path)),
             payload |-> below[k].payload]]

\* What one scenario alone writes for the loaded people.
Alone(n) == build_zip_for_people(mapped, {SCENARIOS[n]})

Paths(z) == { z[k].path : k \in 1..Len(z) }

\* C30: build_zip_for_people, for every list of people and every choice among
\* the four scenarios: the Master scenario writes under Master_{date}/Full_Package,
\* /Business_Cards_Only and /Email_Signatures_Only exactly the entries that
\* scenarios 1, 2 and 3 write under their own bases (same relative names and
\* payloads for each person); entries of different scenarios never share a
\* path; an empty choice yields an archive without entries.
C30_MasterMirrorsScenarios ==
    pc = "done" =>
        /\ SCENARIOS[4] \in download_options =>
              /\ Under(zipf, m_full) = Under(Alone(1), base_full)
              /\ Under(zipf, m_cards) = Under(Alone(2), base_cards)
              /\ Under(zipf, m_sigs) = Under(Alone(3), base_sigs)
              /\ Len(Under(zipf, base_master))
                    = Len(Alone(1)) + Len(Alone(2)) + Len(Alone(3))
        /\ \A a \in 1..4 : \A b \in 1..4 :
              a # b => Paths(Alone(a)) \cap Paths(Alone(b)) = {}
        /\ Paths(zipf) = UNION { Paths(Alone(n)) : n \in { x \in 1..4 : SCENARIOS[x] \in download_options } }
        /\ download_options = {} => zipf = <<>>

\* two people, the second with blanks and a character the slug drops, written
\* with the Master scenario and the Business Cards scenario chosen
C30_Witness ==
    /\ pc = "done"
    /\ download_options = {SCENARIOS[2], SCENARIOS[4]}
    /\ Len(mapped) = 2
    /\ safe_slug(mapped[2]) = <<"A", "l", "_", "B", "_", "b", "_", "c", "_", "_", "d">>
    /\ Len(zipf) = 20

----------------------------------------------------------------------------
(* A failure while the archive is built                                    *)

\* the entries of the archive that carry an artifact of record i
ArtifactsOf(z, i) ==
    { k \in 1..Len(z) : z[k].payload.kind \notin {"summary", "csv"} /\ z[k].payload.row = i }

\* What the build writes for the loaded records when nothing raises.
WholeArchive ==
    IF variant = "app2" THEN build_zip_for_people(mapped, download_options)
    ELSE archive_of(download_options)

\* C23: when the rendering of one record's artifact raises during an archive
\* build, the whole request fails: no archive is offered for download, neither
\* the entries written so far nor a partial ZIP, and no later record is
\* processed: the build wrote nothing for a record after the failing one and
\* did not finish the failing one.
C23_RenderingFailureFailsRequest ==
    raised_at # 0 =>
        /\ ~offered
        /\ pc = "error"
        /\ \A k \in 1..Len(zipf) :
              zipf[k].payload.kind \notin {"summary", "csv"} => zipf[k].payload.row <= raised_at
        /\ \/ Cardinality(ArtifactsOf(zipf, raised_at))
                 < Cardinality(ArtifactsOf(WholeArchive, raised_at))
           \/ ArtifactsOf(WholeArchive, raised_at) = {}

\* src/app.py: two clean records, the renderer raised on the first after some
\* of its entries were written
C23_Witness ==
    /\ variant = "app"
    /\ raised_at = 1
    /\ clean_df = <<1, 2>>
    /\ Len(zipf) = 3
    /\ ~offered

----------------------------------------------------------------------------
(* One subscriber number in several shapes                                 *)

AsciiDigitsOf(s) == SelectSeq(s, LAMBDA c : c \in AsciiDigits)

\* The 9-digit subscriber number starting with 5 that raw writes in one of the
\* shapes 5XXXXXXXX, 05XXXXXXXX, 9665XXXXXXXX, +9665XXXXXXXX, 009665XXXXXXXX
\* with non-digit separators anywhere, or <<>> when raw is no such writing.
SubscriberOf(raw) ==
    LET d == AsciiDigitsOf(raw)
        n == IF Len(d) >= 9 THEN SubSeq(d, Len(d) - 8, Len(d)) ELSE <<>>
        lead == IF Len(d) >= 9 THEN SubSeq(d, 1, Len(d) - 9) ELSE <<>>
    IN  IF /\ \A k \in 1..Len(raw) : raw[k] \notin (UnicodeDigits \ AsciiDigits)
           /\ Len(d) >= 9
           /\ n[1] = "5"
           /\ lead \in { <<>>, <<"0">>, <<"9", "6", "6">>, <<"0", "0", "9", "6", "6">> }
        THEN n
        ELSE <<>>

\* Where the upload run reaches the end of the classification, two rows that
\* write the same number, in whatever shapes, are both in the duplicate set.
SameNumberBothDuplicatesWhereClassified ==
    Classified =>
        \A i, j \in Indices(mapped) :
            (i # j /\ SubscriberOf(df[i].Mobile) # <<>>
                   /\ SubscriberOf(df[i].Mobile) = SubscriberOf(df[j].Mobile))
                => {i, j} \subseteq Range(duplicates)

\* "05 1234 7812" with separators and "00966512347812" on two rows with
\* different emails, classified
TwoShapesBothDuplicates ==
    /\ Classified
    /\ Len(df) = 2
    /\ df[1].Mobile = <<"(", "0", "5", ")", " ">> \o Fill(4) \o <<"-">> \o SubSeq(Fill(8), 5, 8)
    /\ df[2].Mobile = s00966 \o s5 \o Fill(8)
    /\ df[1].Email # df[2].Email
    /\ mapped[1].Mobile_Normalized = mapped[2].Mobile_Normalized
    /\ Range(duplicates) = {1, 2}

\* C25: a row whose mobile writes a 9-digit subscriber number starting with 5
\* in one of the accepted shapes gets the normalized value '+966' followed by
\* that number, and is valid, whatever the shape and the separators; once a
\* sheet is uploaded, two of its rows that write the same number, in whatever
\* shapes, are both in the duplicate set.
C25_SameNumberAnyShapeDuplicates ==
    pc # "idle" =>
        /\ \A i \in Indices(mapped) :
              SubscriberOf(df[i].Mobile) # <<>> =>
                  /\ mapped[i].Mobile_Normalized = <<"+", "9", "6", "6">> \o SubscriberOf(df[i].Mobile)
                  /\ mapped[i].Mobile_Valid
        /\ \A i, j \in Indices(mapped) :
              (i # j /\ SubscriberOf(df[i].Mobile) # <<>>
                     /\ SubscriberOf(df[i].Mobile) = SubscriberOf(df[j].Mobile))
                  => {i, j} \subseteq Range(duplicates)

----------------------------------------------------------------------------
(* The reported counts                                                     *)

\* C29: the counts reported for a classified batch satisfy
\* clean_count >= total - invalid_count - duplicate_count and
\* 0 <= clean_count <= total, and clean_count + invalid_count + duplicate_count
\* equals total exactly when no row is both invalid and duplicate.
C29_CountsBoundCleanCount ==
    Classified =>
        /\ counts.clean >= counts.total - counts.invalid - counts.duplicate
        /\ 0 <= counts.clean
        /\ counts.clean <= counts.total
        /\ (counts.clean + counts.invalid + counts.duplicate = counts.total)
              <=> (Range(invalids) \cap Range(duplicates) = {})

\* a sheet with a clean row and a row that is invalid and duplicate: the sum of
\* the three counts exceeds the total
C29_Witness ==
    /\ Classified
    /\ counts.total = 3
    /\ counts.clean = 1
    /\ Range(invalids) \cap Range(duplicates) # {}
    /\ counts.clean + counts.invalid + counts.duplicate > counts.total

\* a sheet with a clean row, an invalid row and no row in both sets
CountsAddUp ==
    /\ Classified
    /\ counts.clean > 0
    /\ counts.invalid > 0
    /\ Range(invalids) \cap Range(duplicates) = {}
    /\ counts.clean + counts.invalid + counts.duplicate = counts.total

----------------------------------------------------------------------------
(* Which records an archive holds artifacts for                            *)

\* The positions of the archive's per-record artifacts.
ArtifactPositions ==
    { k \in 1..Len(zipf) : zipf[k].payload.kind \notin {"summary", "csv"} }

\* The archive of a finished build: with a scenario selected it has artifacts
\* for exactly the rows of rows, no artifact twice for one row, the artifacts
\* of an earlier row before those of a later row, and the summary before all
\* of them.
ArchiveHoldsRows(rows) ==
    /\ download_options # {} => { zipf[k].payload.row : k \in ArtifactPositions } = rows
    /\ \A k, l \in ArtifactPositions :
          /\ k < l => zipf[k].payload.row <= zipf[l].payload.row
          /\ (k # l /\ zipf[k].payload.row = zipf[l].payload.row) => zipf[k].path # zipf[l].path
    /\ \E s \in 1..Len(zipf) :
          /\ zipf[s].payload.kind = "summary"
          /\ \A k \in ArtifactPositions : s < k

\* The clean-only build's half of C26: a finished build of src/app.py holds
\* artifacts for exactly the clean rows, once each, in row order, after the
\* summary.
CleanRowsOnlyInArchive ==
    (variant = "app" /\ pc = "done") => ArchiveHoldsRows(Range(clean_df))

\* a finished clean-only build of a sheet with a clean row and a row that is not
CleanRowsOnlyInArchiveReached ==
    /\ variant = "app"
    /\ pc = "done"
    /\ download_options = Scenarios
    /\ Len(mapped) = 2
    /\ Range(clean_df) = {2}
    /\ { zipf[k].payload.row : k \in ArtifactPositions } = {2}

\* C26: the clean-only build (src/app.py) writes per-record artifacts for
\* exactly the clean rows, each once and in input row order; the other build
\* (src/a.py) takes an uploaded sheet to its Generate button and writes
\* per-record artifacts for every mapped row, whatever its classification; in
\* both the summary is written before any per-record artifact.
C26_RecordsIncludedPerVariant ==
    /\ (variant = "app" /\ pc = "done") => ArchiveHoldsRows(Range(clean_df))
    /\ (variant = "a" /\ pc # "idle") =>
          /\ pc \in {"loaded", "done"}
          /\ pc = "done" => ArchiveHoldsRows(Indices(mapped))

----------------------------------------------------------------------------
(* Flat paths shared by two records                                        *)

\* The paths of the entries the flat scenarios wrote for record i.
FlatPathsOf(i) ==
    { zipf[k].path : k \in { x \in 1..Len(zipf) :
                               /\ zipf[x].payload.kind \notin {"summary", "csv"}
                               /\ zipf[x].payload.row = i
                               /\ \E n \in 1..(Len(zipf[x].path) - 5) :
                                     SubSeq(zipf[x].path, n, n + 5) = <<"_", "F", "l", "a", "t", "/">> } }

\* names that differ only in a space against an underscore, or in where the
\* first name ends
FlatNames ==
    { [First_Name |-> f, Last_Name |-> l, Role |-> r, Company |-> <<"m">>,
       Mobile |-> <<>>, Email |-> <<>>] :
          f \in { <<"a", " ", "l">>, <<"a", "_", "l">>, <<"a">> },
          l \in { <<"b">>, <<"l", "_", "b">> },
          r \in { <<"c">>, <<"d">> } }

\* What write_card_flat and write_signature_flat compute: under one root, the
\* paths of two persons are the same exactly when First_Name + '_' + Last_Name
\* with spaces replaced by underscores is the same, whatever the role.
FlatWritersSharePathIffSameBase ==
    \A p, q \in FlatNames :
        LET same == Underscored(p.First_Name \o <<"_">> \o p.Last_Name)
                        = Underscored(q.First_Name \o <<"_">> \o q.Last_Name)
        IN  /\ same <=> write_card_flat(p, 1, safe_root)[1].path = write_card_flat(q, 2, safe_root)[1].path
            /\ same <=> write_signature_flat(p, 1, safe_root)[1].path = write_signature_flat(q, 2, safe_root)[1].path
            /\ same <=> write_signature_flat(p, 1, safe_root)[2].path = write_signature_flat(q, 2, safe_root)[2].path
            /\ write_card_flat(p, 1, safe_root)[1].path # write_signature_flat(q, 2, safe_root)[1].path

\* C28: in the build whose loop passes the batch root to the flat writers
\* (src/a.py), an uploaded sheet reaches the Generate button, and after a build
\* with a flat scenario selected two records have a flat path in common exactly
\* when First_Name + '_' + Last_Name with spaces replaced by underscores is
\* equal for both, whatever their role, company, email and mobile.
C28_FlatPathSharedIffSameBase ==
    (variant = "a" /\ pc # "idle") =>
        /\ pc \in {"loaded", "done"}
        /\ (pc = "done" /\ download_options \cap {Cards, Signatures} # {}) =>
              \A i, j \in Indices(mapped) :
                  i # j => ((FlatPathsOf(i) \cap FlatPathsOf(j) # {}) <=> (FirstLast(i) = FirstLast(j)))

====
